---------------------------- MODULE Spec2Model ----------------------------
(***************************************************************************)
(* Model of the Mongo document-store adapter (MongoAdapterBase /            *)
(* MongoAdapter): the transaction bulk compiler MongoAdapter.tx with the    *)
(* backend collection it writes to, MongoAdapterBase.update, the rate       *)
(* gates, the hash iterator find, findAll with its query translation,      *)
(* lookups, sorts and projections, and the index maintenance calls.        *)
(*                                                                         *)
(* Documents are schema-less: a stored document is a function from the     *)
(* keys it carries to their values.  Keys are the strings the code uses    *)
(* ("%hash%", "modifiedOn", mixin-qualified "M.k", positional               *)
(* "items.$.w").  modifiedBy always travels with modifiedOn in the code,    *)
(* so the model carries modifiedOn for both.                                *)
(***************************************************************************)
EXTENDS Naturals, Integers, Sequences, FiniteSets, TLC

\* ------------------------------------------------------------- bounds
\* Longest batch handed to MongoAdapter.tx.
MaxBatch == 2
\* Number of document identifiers of the domain; update() maps use 1..n of them.
NumIds == 4
\* Scaled stand-in for the chunk size `skip = 500` of MongoAdapterBase.update.
ChunkSize == 2

\* Number of concurrent callers of one adapter instance.
NumCallers == 2
\* Scaled stand-in for the read capacity FIND_RLIMIT (default 10).
FIND_RLIMIT == 1
\* The write capacity TX_RLIMIT at its default.
TX_RLIMIT == 1

Ids == 1..NumIds
Callers == 1..NumCallers
\* Number of document identifiers of the domain find() iterates.
NumDocs == 3
\* Scaled stand-in for the buffer threshold 1000 of find()'s flush.
FlushLimit == 1
DocIds == 1..NumDocs
\* Number of document identifiers of the domain findAll() queries.
NumQueryDocs == 2
QueryIds == 1..NumQueryDocs
\* Number of document identifiers of the domain a lookup joins.
NumRelated == 2
RelatedIds == 1..NumRelated
\* Number of documents of the domain a sorted findAll() reads.
NumSortDocs == 4
SortIds == 1..NumSortDocs
\* The domains a batch can span; a findAll reads the first.
Domains == {"d1", "d2"}
\* Identifiers the transactions of a batch target.
TxIds == {1, 2}

\* ---------------------------------------------------------- documents
NULL == "null"
HASHED == "digest|size"
NoDoc == [absent |-> TRUE]

\* The %hash% metadata of a stored document as find() sees it: the field
\* is absent, null, or a string (a sequence of characters, '' included);
\* nodoc when no document is stored under the identifier.
NoHashDoc == [kind |-> "nodoc", chars |-> <<>>]
AbsentHash == [kind |-> "absent", chars |-> <<>>]
NullHash == [kind |-> "null", chars |-> <<>>]
StringHash(s) == [kind |-> "string", chars |-> s]
NoCursor == [state |-> "undefined", pos |-> 0]
EmptyObj == [x \in {} |-> 0]

Exists(d) == "_id" \in DOMAIN d

Has(d, k) == k \in DOMAIN d

SetKey(d, k, v) == [x \in (DOMAIN d) \cup {k} |-> IF x = k THEN v ELSE d[x]]

\* The mixin namespace and its attributes.
Mixins == {"M"}
MixinAttrs == {"k", "arr", "__mixin"}
\* The array-of-objects field and its element attributes.
ElemArrays == {"items"}
ElemAttrs == {"k", "w"}

IsMixinKey(K) == \E m \in Mixins, a \in MixinAttrs : K = m \o "." \o a
MixinOf(K) == CHOOSE m \in Mixins : \E a \in MixinAttrs : K = m \o "." \o a
AttrOf(K) == CHOOSE a \in MixinAttrs : \E m \in Mixins : K = m \o "." \o a

IsPositionalKey(K) == \E r \in ElemArrays, a \in ElemAttrs : K = r \o ".$." \o a
PosArr(K) == CHOOSE r \in ElemArrays : \E a \in ElemAttrs : K = r \o ".$." \o a
PosAttr(K) == CHOOSE a \in ElemAttrs : \E r \in ElemArrays : K = r \o ".$." \o a

IsElemKey(K) == \E r \in ElemArrays, a \in ElemAttrs : K = r \o "." \o a
ElemArr(K) == CHOOSE r \in ElemArrays : \E a \in ElemAttrs : K = r \o "." \o a
ElemAttr(K) == CHOOSE a \in ElemAttrs : \E r \in ElemArrays : K = r \o "." \o a

\* Does the document carry a value at the (possibly mixin-qualified) path?
HasPath(d, K) ==
  IF IsMixinKey(K)
  THEN Has(d, MixinOf(K)) /\ Has(d[MixinOf(K)], AttrOf(K))
  ELSE Has(d, K)

GetPath(d, K) == IF IsMixinKey(K) THEN d[MixinOf(K)][AttrOf(K)] ELSE d[K]

\* Mongo's $set of one path: a dotted path creates the embedded object.
SetPath(d, K, v) ==
  IF IsMixinKey(K)
  THEN LET m == MixinOf(K)
           sub == IF Has(d, m) THEN d[m] ELSE EmptyObj
       IN SetKey(d, m, SetKey(sub, AttrOf(K), v))
  ELSE SetKey(d, K, v)

\* ---------------------------------------------------- sequence helpers
RECURSIVE Without(_, _)
Without(s, v) ==
  IF s = <<>> THEN <<>>
  ELSE IF Head(s) = v THEN Without(Tail(s), v)
       ELSE <<Head(s)>> \o Without(Tail(s), v)

Min(a, b) == IF a < b THEN a ELSE b

\* Insert the elements `each` at 0-based position p (past the end: append).
InsertAt(s, each, p) ==
  LET q == Min(p, Len(s))
  IN SubSeq(s, 1, q) \o each \o SubSeq(s, q + 1, Len(s))

\* Index of the first element of an array of objects matching every
\* element condition of the filter, 0 when none matches.
ElemConds(filter) == {K \in DOMAIN filter : IsElemKey(K)}

ElemMatches(e, filter) ==
  \A K \in ElemConds(filter) : Has(e, ElemAttr(K)) /\ e[ElemAttr(K)] = filter[K]

FirstMatch(s, filter) ==
  IF \E i \in 1..Len(s) : ElemMatches(s[i], filter)
  THEN CHOOSE i \in 1..Len(s) :
         /\ ElemMatches(s[i], filter)
         /\ \A j \in 1..(i - 1) : ~ElemMatches(s[j], filter)
  ELSE 0

\* ------------------------------------------------ backend update primitives
\* The backend collaborator (the mongodb collection handle) is not part of
\* the repository; these operators give its documented semantics for the
\* update documents the adapter emits.

\* Does the filter of an updateOne / deleteOne select the document?
Matches(d, filter) ==
  /\ Exists(d)
  /\ d["_id"] = filter["_id"]
  /\ \A K \in ElemConds(filter) :
       /\ Has(d, ElemArr(K))
       /\ FirstMatch(d[ElemArr(K)], filter) > 0

RECURSIVE ApplyPull(_, _, _)
ApplyPull(d, m, keys) ==
  IF keys = {} THEN d
  ELSE LET K == CHOOSE x \in keys : TRUE
           d1 == IF HasPath(d, K)
                 THEN SetPath(d, K, Without(GetPath(d, K), m[K]))
                 ELSE d
       IN ApplyPull(d1, m, keys \ {K})

PushOne(d, K, desc) ==
  LET old == IF HasPath(d, K) THEN GetPath(d, K) ELSE <<>>
      new == IF "$position" \in DOMAIN desc
             THEN InsertAt(old, desc["$each"], desc["$position"])
             ELSE old \o desc["$each"]
  IN SetPath(d, K, new)

RECURSIVE ApplyPush(_, _, _)
ApplyPush(d, m, keys) ==
  IF keys = {} THEN d
  ELSE LET K == CHOOSE x \in keys : TRUE
       IN ApplyPush(PushOne(d, K, m[K]), m, keys \ {K})

\* $set of one key; "arr.$.attr" addresses the first element the filter matched.
SetOne(d, K, v, filter) ==
  IF IsPositionalKey(K)
  THEN LET r == PosArr(K)
           i == FirstMatch(d[r], filter)
       IN SetKey(d, r, [d[r] EXCEPT ![i] = SetKey(d[r][i], PosAttr(K), v)])
  ELSE SetPath(d, K, v)

RECURSIVE ApplySet(_, _, _, _)
ApplySet(d, m, keys, filter) ==
  IF keys = {} THEN d
  ELSE LET K == CHOOSE x \in keys : TRUE
       IN ApplySet(SetOne(d, K, m[K], filter), m, keys \ {K}, filter)

RECURSIVE ApplyUnset(_, _)
ApplyUnset(d, keys) ==
  IF keys = {} THEN d
  ELSE LET K == CHOOSE x \in keys : TRUE
       IN ApplyUnset([x \in (DOMAIN d) \ {K} |-> d[x]], keys \ {K})

Part(upd, o) == IF o \in DOMAIN upd THEN upd[o] ELSE EmptyObj

\* One update document applied to one stored document (no upsert).
UpdateDoc(d, filter, upd) ==
  IF ~Matches(d, filter) THEN d
  ELSE LET d1 == ApplyPull(d, Part(upd, "$pull"), DOMAIN Part(upd, "$pull"))
           d2 == ApplyPush(d1, Part(upd, "$push"), DOMAIN Part(upd, "$push"))
           d3 == ApplySet(d2, Part(upd, "$set"), DOMAIN Part(upd, "$set"), filter)
       IN ApplyUnset(d3, DOMAIN Part(upd, "$unset"))

\* One write of a bulkWrite applied to the collection.
ApplyWrite(coll, op) ==
  LET x == op.filter["_id"]
  IN IF op.kind = "deleteOne"
     THEN [coll EXCEPT ![x] = IF Matches(coll[x], op.filter) THEN NoDoc ELSE coll[x]]
     ELSE [coll EXCEPT ![x] = UpdateDoc(coll[x], op.filter, op.update)]

\* ------------------------------------------------------- transactions
\* A transaction record carries _class, objectId, modifiedOn (its position
\* in the batch: records are ordered and timestamped) and, by kind,
\* attributes / operations / mixin / retrieve.
OperatorNames == {"$push", "$pull", "$move", "$update", "$set", "$unset"}

\* core's isOperator: a non-empty object all of whose keys start with '$'.
isOperator(o) == DOMAIN o # {} /\ \A k \in DOMAIN o : k \in OperatorNames

\* Object.keys(o)[0] of a one-key object.
FirstKey(o) == CHOOSE k \in DOMAIN o : TRUE

InitialAttrs == [f |-> 0, arr |-> <<"a", "b", "c">>, items |-> <<[k |-> 1, w |-> 0]>>]

CreateShapes ==
  {[_class |-> "TxCreateDoc", objectId |-> x, attributes |-> InitialAttrs] : x \in TxIds}

FlatOperations == {[f |-> 1], [f |-> 2], [arr |-> <<"b">>]}

MoveOperations ==
  {"$move" :> [arr |-> ("$value" :> v @@ "$position" :> p)] :
     v \in {"a", "c"}, p \in {0, 2}}

PushOperations == {"$push" :> [arr |-> ("$each" :> <<"a">>)]}

QueryUpdateOperations ==
  {"$update" :> [items |-> ("$query" :> [k |-> q] @@ "$update" :> [w |-> 1])] : q \in {1, 2}}

\* Identifier 1 gets every shape, identifier 2 a few of them.
UpdateShapes ==
  {[_class |-> "TxUpdateDoc", objectId |-> 1, operations |-> o, retrieve |-> r] :
     o \in {[f |-> 1]} \cup PushOperations, r \in BOOLEAN}
  \cup
  {[_class |-> "TxUpdateDoc", objectId |-> 1, operations |-> o, retrieve |-> FALSE] :
     o \in (FlatOperations \ {[f |-> 1]}) \cup MoveOperations \cup QueryUpdateOperations}
  \cup
  {[_class |-> "TxUpdateDoc", objectId |-> 2, operations |-> o, retrieve |-> FALSE] :
     o \in {[f |-> 1]} \cup PushOperations}

MixinShapes ==
  {[_class |-> "TxMixin", objectId |-> 1, mixin |-> "M", attributes |-> a] :
     a \in {EmptyObj, [k |-> 1],
            "$push" :> [arr |-> ("$each" :> <<"a">>)],
            "$move" :> [arr |-> ("$value" :> "a" @@ "$position" :> 1)]}}
  \cup
  {[_class |-> "TxMixin", objectId |-> 2, mixin |-> "M", attributes |-> EmptyObj]}

RemoveShapes == {[_class |-> "TxRemoveDoc", objectId |-> x] : x \in TxIds}

\* Records the compiler has no bucket for: an apply-if wrapper, a record of
\* a class that is no document transaction, and a create whose object class
\* has no domain.
OtherShapes ==
  {[_class |-> "TxApplyIf", objectId |-> 1],
   [_class |-> "TxWorkspaceEvent", objectId |-> 1],
   [_class |-> "TxCreateDoc", objectId |-> 3, objectClass |-> "NoDomainClass",
    attributes |-> InitialAttrs]}

\* TxCollectionCUD: the record is about the owner (objectId, objectClass)
\* and its collection, and wraps the transaction on the attached document.
Wrapped(inner) ==
  [_class |-> "TxCollectionCUD", objectId |-> 1, objectClass |-> "Owner",
   collection |-> "comments", tx |-> inner]

\* A wrapped create whose attributes already carry an owner linkage, and a
\* wrapped flat update, operator update, mixin-apply and remove.
CollectionShapes ==
  {Wrapped([_class |-> "TxCreateDoc", objectId |-> 2,
            attributes |-> [f |-> 0, attachedTo |-> 4, attachedToClass |-> "Other",
                            collection |-> "old"]]),
   Wrapped([_class |-> "TxUpdateDoc", objectId |-> 2, operations |-> [f |-> 2],
            retrieve |-> FALSE]),
   Wrapped([_class |-> "TxUpdateDoc", objectId |-> 2,
            operations |-> "$push" :> [arr |-> ("$each" :> <<"a">>)], retrieve |-> FALSE]),
   Wrapped([_class |-> "TxMixin", objectId |-> 2, mixin |-> "M", attributes |-> [k |-> 1]]),
   Wrapped([_class |-> "TxRemoveDoc", objectId |-> 2])}

TxShapes ==
  CreateShapes \cup UpdateShapes \cup MixinShapes \cup RemoveShapes \cup OtherShapes
    \cup CollectionShapes

undefined == "undefined"

\* TxProcessor.isExtendsCUD
isExtendsCUD(c) ==
  c \in {"TxCreateDoc", "TxUpdateDoc", "TxRemoveDoc", "TxMixin", "TxCollectionCUD"}

\* h.findDomain: every class of the model lives in the one domain but
\* NoDomainClass, which has none.
findDomain(tx) ==
  IF "objectClass" \in DOMAIN tx /\ tx.objectClass = "NoDomainClass"
  THEN undefined
  ELSE "domain"

\* The key groupByArray files a record under.
DomainOf(tx) == IF isExtendsCUD(tx._class) THEN findDomain(tx) ELSE undefined

\* byDomain without the group of the undefined domain, which tx skips.
RECURSIVE DomainGroup(_)
DomainGroup(txs) ==
  IF txs = <<>> THEN <<>>
  ELSE IF DomainOf(Head(txs)) = undefined THEN DomainGroup(Tail(txs))
       ELSE <<Head(txs)>> \o DomainGroup(Tail(txs))

\* The modification stamp of the record at position i; a wrapped
\* transaction carries the stamp of its wrapper.
Stamp(t, i) ==
  IF "tx" \in DOMAIN t
  THEN SetKey(SetKey(t, "tx", SetKey(t.tx, "modifiedOn", i)), "modifiedOn", i)
  ELSE SetKey(t, "modifiedOn", i)

\* ------------------------------------------------- the bulk compiler
translateDoc(doc) == SetKey(doc, "%hash%", NULL)

\* TxProcessor.createDoc2Doc of core: the attributes with the identity and
\* the modification stamp of the record.
createDoc2Doc(tx) ==
  ("_id" :> tx.objectId @@ "modifiedOn" :> tx.modifiedOn) @@ tx.attributes

\* OperationBulk; `update` is the insertion-ordered Map as a sequence of
\* [id, set] entries, `raw` holds the findOneAndUpdate each closure issues.
EmptyBulk ==
  [add |-> <<>>, update |-> <<>>, bulkOperations |-> <<>>, findUpdate |-> {}, raw |-> <<>>]

UpdateOne(filter, update) == [kind |-> "updateOne", filter |-> filter, update |-> update]

\* Mutant: an earlier transaction's fields win over a later one's.
MergeUpdateFirstWins(upd, x, entries) ==
  IF \E i \in 1..Len(upd) : upd[i].id = x
  THEN LET i == CHOOSE j \in 1..Len(upd) : upd[j].id = x
       IN [upd EXCEPT ![i].set = @ @@ entries]
  ELSE Append(upd, [id |-> x, set |-> entries])

\* bulk.update.get(id) / set(id, upd) followed by the key-by-key overwrite.
MergeUpdate(upd, x, entries) ==
  IF \E i \in 1..Len(upd) : upd[i].id = x
  THEN LET i == CHOOSE j \in 1..Len(upd) : upd[j].id = x
       IN [upd EXCEPT ![i].set = entries @@ @]
  ELSE Append(upd, [id |-> x, set |-> entries])

txCreateDoc(bulk, tx) ==
  [bulk EXCEPT !.add = Append(@, translateDoc(createDoc2Doc(tx)))]

txRemoveDoc(bulk, tx) ==
  [bulk EXCEPT !.bulkOperations =
     Append(@, [kind |-> "deleteOne", filter |-> [_id |-> tx.objectId]])]

\* The two operations of an update $move.
UpdateMoveOps(tx) ==
  LET keyval == tx.operations["$move"]
      arr == FirstKey(keyval)
      desc == keyval[arr]
      filter == [_id |-> tx.objectId]
  IN << UpdateOne(filter, "$set" :> ("%hash%" :> NULL)
                          @@ "$pull" :> (arr :> desc["$value"])),
        UpdateOne(filter, "$set" :> ("modifiedOn" :> tx.modifiedOn @@ "%hash%" :> NULL)
                          @@ "$push" :> (arr :> ("$each" :> <<desc["$value"]>>
                                                 @@ "$position" :> desc["$position"]))) >>

\* The two operations of an update $update (query-scoped element update).
UpdateQueryOps(tx) ==
  LET keyval == tx.operations["$update"]
      arr == FirstKey(keyval)
      desc == keyval[arr]
      q == desc["$query"]
      u == desc["$update"]
      elemFilter == [K \in {arr \o "." \o a : a \in DOMAIN q} |->
                       q[CHOOSE a \in DOMAIN q : K = arr \o "." \o a]]
      elemSet == [K \in {arr \o ".$." \o a : a \in DOMAIN u} |->
                    u[CHOOSE a \in DOMAIN u : K = arr \o ".$." \o a]]
  IN << UpdateOne(("_id" :> tx.objectId) @@ elemFilter,
                  "$set" :> (elemSet @@ "%hash%" :> NULL)),
        UpdateOne([_id |-> tx.objectId],
                  "$set" :> ("modifiedOn" :> tx.modifiedOn @@ "%hash%" :> NULL)) >>

\* Mutant: the catch-all operator case without the forced hash reset.
UpdateDefaultDocKeepsHash(tx) ==
  "$set" :> ("modifiedOn" :> tx.modifiedOn) @@ tx.operations

\* The update document of the catch-all operator case.
UpdateDefaultDoc(tx) ==
  "$set" :> ("modifiedOn" :> tx.modifiedOn @@ "%hash%" :> NULL) @@ tx.operations

\* The field-set a flat update merges into bulk.update.
UpdateFlatEntries(tx) ==
  ("modifiedOn" :> tx.modifiedOn @@ "%hash%" :> NULL) @@ tx.operations

txUpdateDoc(bulk, tx) ==
  IF isOperator(tx.operations)
  THEN LET operator == FirstKey(tx.operations)
       IN IF operator = "$move"
          THEN [bulk EXCEPT !.bulkOperations = @ \o UpdateMoveOps(tx)]
          ELSE IF operator = "$update"
          THEN [bulk EXCEPT !.bulkOperations = @ \o UpdateQueryOps(tx)]
          ELSE IF tx.retrieve
          THEN [bulk EXCEPT !.raw =
                  Append(@, [kind |-> "findOneAndUpdate",
                             filter |-> [_id |-> tx.objectId],
                             update |-> UpdateDefaultDoc(tx)])]
          ELSE [bulk EXCEPT !.bulkOperations =
                  Append(@, UpdateOne([_id |-> tx.objectId], UpdateDefaultDoc(tx)))]
  ELSE [bulk EXCEPT
          !.update = MergeUpdate(@, tx.objectId, UpdateFlatEntries(tx)),
          !.findUpdate = IF tx.retrieve THEN @ \cup {tx.objectId} ELSE @]

MixinKey(mixin, k) == IF k \in OperatorNames THEN k ELSE mixin \o "." \o k

\* Mutant: no sentinel attribute for an empty attribute set.
translateMixinAttrsNoSentinel(mixin, attributes) ==
  [K \in {MixinKey(mixin, k) : k \in DOMAIN attributes} |->
     LET k == CHOOSE a \in DOMAIN attributes : MixinKey(mixin, a) = K
     IN IF k \in OperatorNames
        THEN [Q \in {MixinKey(mixin, a) : a \in DOMAIN attributes[k]} |->
                attributes[k][CHOOSE a \in DOMAIN attributes[k] : MixinKey(mixin, a) = Q]]
        ELSE attributes[k]]

RECURSIVE translateMixinAttrs(_, _)
translateMixinAttrs(mixin, attributes) ==
  IF DOMAIN attributes = {}
  THEN (mixin \o "." \o "__mixin") :> "true"
  ELSE [K \in {MixinKey(mixin, k) : k \in DOMAIN attributes} |->
          LET k == CHOOSE a \in DOMAIN attributes : MixinKey(mixin, a) = K
          IN IF k \in OperatorNames
             THEN translateMixinAttrs(mixin, attributes[k])
             ELSE attributes[k]]

\* txMixin's $move reads keyval[arr] with arr already mixin-qualified.
MixinMoveArr(tx) == tx.mixin \o "." \o FirstKey(tx.attributes["$move"])

MixinMoveUndefined(tx) == MixinMoveArr(tx) \notin DOMAIN tx.attributes["$move"]

MixinMoveOps(tx) ==
  LET arr == MixinMoveArr(tx)
      desc == tx.attributes["$move"][arr]
      filter == [_id |-> tx.objectId]
  IN << UpdateOne(filter, "$pull" :> (arr :> desc["$value"])),
        UpdateOne(filter, "$set" :> ("modifiedOn" :> tx.modifiedOn)
                          @@ "$push" :> (arr :> ("$each" :> <<desc["$value"]>>
                                                 @@ "$position" :> desc["$position"]))) >>

MixinOperatorDoc(tx) ==
  "$set" :> ("modifiedOn" :> tx.modifiedOn) @@ translateMixinAttrs(tx.mixin, tx.attributes)

MixinFlatEntries(tx) ==
  ("modifiedOn" :> tx.modifiedOn) @@ translateMixinAttrs(tx.mixin, tx.attributes)

txMixin(bulk, tx) ==
  IF isOperator(tx.attributes)
  THEN IF FirstKey(tx.attributes) = "$move"
       THEN [bulk EXCEPT !.bulkOperations = @ \o MixinMoveOps(tx)]
       ELSE [bulk EXCEPT !.bulkOperations =
               Append(@, UpdateOne([_id |-> tx.objectId], MixinOperatorDoc(tx)))]
  ELSE [bulk EXCEPT !.update = MergeUpdate(@, tx.objectId, MixinFlatEntries(tx))]

\* Compiling the record raises a TypeError (property read of undefined).
Throws(tx) ==
  /\ tx._class = "TxMixin"
  /\ isOperator(tx.attributes)
  /\ FirstKey(tx.attributes) = "$move"
  /\ MixinMoveUndefined(tx)

RECURSIVE updateBulk(_, _)

\* Mutant: the wrapped create is compiled as it is, without the owner linkage.
txCollectionCUDVerbatim(bulk, tx) == updateBulk(bulk, tx.tx)

txCollectionCUD(bulk, tx) ==
  IF tx.tx._class = "TxCreateDoc"
  THEN txCreateDoc(bulk, [tx.tx EXCEPT !.attributes =
                            [attachedTo |-> tx.objectId, attachedToClass |-> tx.objectClass,
                             collection |-> tx.collection] @@ @])
  ELSE updateBulk(bulk, tx.tx)

updateBulk(bulk, tx) ==
  CASE tx._class = "TxCreateDoc" -> txCreateDoc(bulk, tx)
    [] tx._class = "TxCollectionCUD" -> txCollectionCUD(bulk, tx)
    [] tx._class = "TxUpdateDoc" -> txUpdateDoc(bulk, tx)
    [] tx._class = "TxRemoveDoc" -> txRemoveDoc(bulk, tx)
    [] tx._class = "TxMixin" -> txMixin(bulk, tx)
    [] tx._class = "TxApplyIf" -> bulk
    [] OTHER -> bulk

\* for (const t of txs) this.updateBulk(domainBulk, t)
RECURSIVE Compile(_, _)
Compile(bulk, txs) ==
  IF txs = <<>> THEN bulk
  ELSE Compile(updateBulk(bulk, Head(txs)), Tail(txs))

CompileThrows(txs) == \E i \in 1..Len(txs) : Throws(txs[i])

\* ------------------------------------------------------------- state
VARIABLES
  db,        \* the collection of the domain: identifier -> stored document
  pc,        \* position of the tx call: idle, a phase, done or failed
  txes,      \* the batch of the call
  bulk,      \* the compiled OperationBulk of the domain group
  pending,   \* operations of the current backend call not yet applied
  writeErr,  \* a write of the current backend call was rejected
  result,    \* the TxResult list of the call
  issued,    \* per step, the number of backend operations applied so far
  lastOp,    \* per identifier, the last backend operation the call applied to it
  rawLog,    \* the raw operations run so far, by their position in bulk.raw
  db0,       \* the collection as it was when the call started
  inOrder,   \* the backend applied every bulk write of the call in list order
  error,     \* the error the call was rejected with, "none" when none
  ops,       \* update(): the operations still to submit, [id, upd] entries
  skip,      \* update(): the current chunk size
  upc,       \* update(): idle, loop or done
  operations,\* update(): the map update() was called with
  submitted, \* update(): how often each identifier's operation was submitted
  lost,      \* update(): identifiers whose operation failed in a chunk of one
  updResult, \* update(): what the call returned, "none" while it runs
  adapter,   \* gates: the class of the adapter instance
  findRateLimit, \* gates: the callers holding a slot of the read gate
  rateLimit, \* gates: the callers holding a slot of the write gate
  operation, \* gates: per caller, the operation of its call, "none" when idle
  st,        \* gates: per caller, idle, waiting, running or detached
  groups,    \* gates: per caller and domain, the state of its backend work
  failed,    \* gates: the operations of which a call has ended with an error
  hcoll,     \* find(): per identifier, the %hash% metadata of the stored document
  mode,      \* find(): hashed or non-hashed
  iterator,  \* find(): the backend cursor, undefined before the first next()
  bulkUpdate,\* find(): the computed values not yet written, <<identifier, value>>
  recheck,   \* find(): the recheck argument
  calculateHash, \* find(): the adapter's options.calculateHash
  ipc,       \* find(): position of the caller inside next() or close()
  yielded,   \* find(): what next() has returned in this pass, in order
  ended,     \* find(): how often next() has returned the end marker
  computes,  \* find(): number of hash computations of this pass
  pass,      \* find(): 1 for the first find() of the domain, 2 for the second
  firstPass, \* find(): the triples the first pass yielded
  hcoll0,    \* find(): the metadata as it was when the pass started
  qcoll,     \* findAll(): the documents of the queried domain
  request,   \* findAll(): the class and the query of the call
  mongoQuery,\* findAll(): the filter translateQuery emitted
  found,     \* findAll(): the identifiers of the documents returned
  qpc,       \* findAll(): idle or done
  related,   \* findAll(): the documents a lookup joins, by identifier
  rows,      \* findAll(): the documents returned, in order
  indexes,       \* indexes: per index name, the index of the collection, "none" when absent
  idxCall,   \* indexes: the call in progress and its arguments
  idxPos,    \* indexes: position of the loop in the list it walks
  attempted, \* indexes: the names handed to createIndex / dropIndex, in order
  logged,    \* indexes: number of errors written to the console
  idxError,  \* indexes: the error the call was rejected with, "none" when none
  idxpc,     \* indexes: idle, create, remove or done
  writes,    \* tx(): the backend writes of the last call, each with its collection
  rev        \* find(): per identifier, how often a tx or update call has changed the document

txVars == <<db, pc, txes, bulk, pending, writeErr, result, issued, lastOp, rawLog, db0,
           inOrder, error>>

updVars == <<ops, skip, upc, operations, submitted, lost, updResult>>

gateVars == <<adapter, findRateLimit, rateLimit, operation, st, groups, failed>>

iterVars == <<hcoll, mode, iterator, bulkUpdate, recheck, calculateHash, ipc, yielded, ended,
             computes, pass, firstPass, hcoll0>>

queryVars == <<qcoll, request, mongoQuery, found, qpc, related, rows>>

idxVars == <<indexes, idxCall, idxPos, attempted, logged, idxError, idxpc>>

placeVars == <<writes>>

revVars == <<rev>>

notTx == <<updVars, gateVars, iterVars, queryVars, idxVars, placeVars, revVars>>

notUpd == <<txVars, gateVars, iterVars, queryVars, idxVars, placeVars, revVars>>

notGate == <<txVars, updVars, iterVars, queryVars, idxVars, placeVars, revVars>>

notIter == <<txVars, updVars, gateVars, queryVars, idxVars, placeVars, revVars>>

notQuery == <<txVars, updVars, gateVars, iterVars, idxVars, placeVars, revVars>>

notIdx == <<txVars, updVars, gateVars, iterVars, queryVars, placeVars, revVars>>

notPlace == <<updVars, gateVars, iterVars, queryVars, idxVars, revVars>>

vars == <<db, pc, txes, bulk, pending, writeErr, result, issued, lastOp, rawLog, db0,
          inOrder, error, ops, skip, upc, operations, submitted, lost, updResult,
          adapter, findRateLimit, rateLimit, operation, st, groups, failed,
          hcoll, mode, iterator, bulkUpdate, recheck, calculateHash, ipc, yielded, ended,
          computes, pass, firstPass, hcoll0, qcoll, request, mongoQuery, found, qpc,
          related, rows, indexes, idxCall, idxPos, attempted, logged, idxError, idxpc,
          writes, rev>>

NewDoc(x) == translateDoc(("_id" :> x @@ "modifiedOn" :> 0) @@ InitialAttrs)

WithMixin(d) == SetKey(d, "M", [k |-> 0])

\* Mutant: the explicit bulk-operation list is written before the merged
\* field-set updates.
PhaseOrderBulkFirst == <<"insert", "bulk", "update", "find", "raw">>

\* The steps of the domain group, in the order of the `if`s of tx.
PhaseOrder == <<"insert", "update", "bulk", "find", "raw">>

Work(b, ph) ==
  CASE ph = "insert" -> Len(b.add)
    [] ph = "update" -> Len(b.update)
    [] ph = "bulk" -> Len(b.bulkOperations)
    [] ph = "find" -> IF b.findUpdate # {} THEN 1 ELSE 0
    [] ph = "raw" -> Len(b.raw)

\* The first step after position k that has something to do, else done.
NextPhase(b, k) ==
  LET later == {j \in (k + 1)..Len(PhaseOrder) : Work(b, PhaseOrder[j]) > 0}
  IN IF later = {} THEN "done"
     ELSE PhaseOrder[CHOOSE j \in later : \A i \in later : j <= i]

PhaseIndex(ph) == CHOOSE j \in 1..Len(PhaseOrder) : PhaseOrder[j] = ph

Enter(b, ph, err) ==
  /\ pc' = ph
  /\ pending' = IF ph \in {"done", "failed"} THEN {} ELSE 1..Work(b, ph)
  /\ writeErr' = FALSE
  /\ error' = err

\* After one operation of the current backend call: the call returns once
\* all its operations were applied, and throws if one was rejected.
Advance(left, err) ==
  IF left # {}
  THEN /\ pending' = left
       /\ writeErr' = err
       /\ pc' = pc
       /\ error' = error
  ELSE IF err THEN Enter(bulk, "failed", "MongoBulkWriteError")
       ELSE Enter(bulk, NextPhase(bulk, PhaseIndex(pc)), "none")

\* Did the backend pick the first pending operation?
First(i) == \A k \in pending : i <= k

\* Bookkeeping of one applied backend operation of step ph on identifier x.
Logged(ph, kind, x) ==
  /\ issued' = [issued EXCEPT ![ph] = @ + 1]
  /\ lastOp' = IF x \in Ids THEN [lastOp EXCEPT ![x] = kind] ELSE lastOp

\* The hash iterator's flush: a metadata-only write of a computed hash.
HashFlush(x) ==
  /\ pc = "idle"
  /\ Exists(db[x])
  /\ db[x]["%hash%"] = NULL
  /\ db' = [db EXCEPT ![x] = UpdateDoc(@, [_id |-> x], "$set" :> ("%hash%" :> HASHED))]
  /\ UNCHANGED <<pc, txes, bulk, pending, writeErr, result, issued, lastOp, rawLog, db0,
                 inOrder, error, notTx>>

\* MongoAdapter.tx up to the first backend call of the domain group: the
\* batch is grouped by domain and the group of the domain is compiled; the
\* records filed under no domain are skipped, an empty bulk ends the call,
\* and a compile error rejects the call before any write.
TxStart ==
  /\ pc = "idle"
  /\ \E n \in 0..MaxBatch : \E b \in [1..n -> TxShapes] :
       LET batch == [i \in 1..n |-> Stamp(b[i], i)]
       IN /\ txes' = batch
          /\ IF CompileThrows(DomainGroup(batch))
             THEN /\ bulk' = EmptyBulk
                  /\ Enter(EmptyBulk, "failed", "TypeError")
             ELSE /\ bulk' = Compile(EmptyBulk, DomainGroup(batch))
                  /\ Enter(Compile(EmptyBulk, DomainGroup(batch)),
                           NextPhase(Compile(EmptyBulk, DomainGroup(batch)), 0), "none")
  /\ db0' = db
  /\ inOrder' = TRUE
  /\ UNCHANGED <<db, result, issued, lastOp, rawLog, notTx>>

\* coll.insertMany(domainBulk.add, { ordered: false }), one document at a
\* time in any order; a duplicate identifier is rejected, the rest inserted.
TxInsert ==
  /\ pc = "insert"
  /\ \E i \in pending :
       LET doc == bulk.add[i]
           dup == Exists(db[doc["_id"]])
       IN /\ db' = IF dup THEN db ELSE [db EXCEPT ![doc["_id"]] = doc]
          /\ Logged("insert", IF dup THEN "rejected" ELSE "insertOne", doc["_id"])
          /\ Advance(pending \ {i}, writeErr \/ dup)
          /\ inOrder' = (inOrder /\ First(i))
  /\ UNCHANGED <<txes, bulk, result, rawLog, db0, notTx>>

\* coll.bulkWrite of one updateOne { $set } per entry of bulk.update, unordered.
TxUpdate ==
  /\ pc = "update"
  /\ \E i \in pending :
       LET e == bulk.update[i]
       IN /\ db' = ApplyWrite(db, UpdateOne([_id |-> e.id], "$set" :> e.set))
          /\ Logged("update", "updateOne", e.id)
          /\ Advance(pending \ {i}, writeErr)
          /\ inOrder' = (inOrder /\ First(i))
  /\ UNCHANGED <<txes, bulk, result, rawLog, db0, notTx>>

\* coll.bulkWrite(domainBulk.bulkOperations, { ordered: false }): the
\* backend may apply the operations in any order.
TxBulkWrite ==
  /\ pc = "bulk"
  /\ \E i \in pending :
       LET op == bulk.bulkOperations[i]
       IN /\ db' = ApplyWrite(db, op)
          /\ Logged("bulk", op.kind, op.filter["_id"])
          /\ Advance(pending \ {i}, writeErr)
          /\ inOrder' = (inOrder /\ First(i))
  /\ UNCHANGED <<txes, bulk, result, rawLog, db0, notTx>>

RECURSIVE FoundDocs(_, _)
FoundDocs(coll, ids) ==
  IF ids = {} THEN <<>>
  ELSE LET x == CHOOSE y \in ids : \A z \in ids : y <= z
       IN (IF Exists(coll[x]) THEN <<coll[x]>> ELSE <<>>) \o FoundDocs(coll, ids \ {x})

\* coll.find({ _id: { $in: findUpdate } }).toArray(); result.push(...docs)
TxFindResult ==
  /\ pc = "find"
  /\ result' = result \o FoundDocs(db, bulk.findUpdate)
  /\ Logged("find", "find", 0)
  /\ Advance({}, FALSE)
  /\ UNCHANGED <<db, txes, bulk, rawLog, db0, inOrder, notTx>>

\* for (const r of domainBulk.raw) result.push({ object: await r() })
TxRaw ==
  /\ pc = "raw"
  /\ LET i == CHOOSE j \in pending : \A k \in pending : j <= k
         op == bulk.raw[i]
         x == op.filter["_id"]
         after == UpdateDoc(db[x], op.filter, op.update)
     IN /\ db' = [db EXCEPT ![x] = after]
        /\ result' = Append(result, [object |-> after])
        /\ Logged("raw", op.kind, x)
        /\ rawLog' = Append(rawLog, i)
        /\ Advance(pending \ {i}, FALSE)
  /\ UNCHANGED <<txes, bulk, db0, inOrder, notTx>>

\* The names of the indexes a collection of the domain may carry.
IndexNames == <<"a_1", "b_1", "c_1">>

NoCall == [op |-> "none", list |-> <<>>, del |-> {}, keep |-> {}]

\* No tx call has written to a collection.
PlaceIdle == writes = {}

\* No document of the iterated domain has been changed since it was stored.
RevIdle == rev = [x \in DocIds |-> 0]

\* Neither createIndexes nor removeOldIndex has been called; the collection
\* has no secondary index.
IdxIdle ==
  /\ indexes = [n \in 1..Len(IndexNames) |-> "none"]
  /\ idxCall = NoCall
  /\ idxPos = 1
  /\ attempted = <<>>
  /\ logged = 0
  /\ idxError = "none"
  /\ idxpc = "idle"

UpdIdle ==
  /\ ops = <<>>
  /\ skip = ChunkSize
  /\ upc = "idle"
  /\ operations = <<>>
  /\ submitted = [x \in Ids |-> 0]
  /\ lost = {}
  /\ updResult = "none"

\* No caller has a call open on the adapter.
GateIdle ==
  /\ adapter = "MongoAdapter"
  /\ findRateLimit = {}
  /\ rateLimit = {}
  /\ operation = [p \in Callers |-> "none"]
  /\ st = [p \in Callers |-> "idle"]
  /\ groups = [p \in Callers |-> [d \in Domains |-> "none"]]
  /\ failed = {}

\* An explicit constraint on the class identifier, or none: undefined, a
\* string, or an object with $in and $nin lists.
ClassValue(t, str, hasIn, inList, hasNin, ninList) ==
  [t |-> t, s |-> str, hasIn |-> hasIn, inList |-> inList, hasNin |-> hasNin,
   ninList |-> ninList]

Undefined == ClassValue("undefined", "", FALSE, <<>>, FALSE, <<>>)

\* options.lookup: none, a forward lookup { key: target } or a reverse
\* lookup { _id: { key: [target, attr] } }.  A chained forward lookup
\* { key: [target, nested] } carries the nested lookup as the one element
\* of `nested`.
NoLookup == [kind |-> "none", key |-> "", target |-> "", attr |-> "", nested |-> <<>>]

\* options.projection: undefined, or a map of keys to 1 (include) or to 0
\* (exclude).
NoProjection == [kind |-> "undefined", keys |-> {}]

\* FindOptions: sort is the list of [key, order] entries in the caller's
\* order (empty when undefined), limit is 0 when undefined.
FindOptions(sort, lookup, projection, limit) ==
  [defined |-> TRUE, sort |-> sort, lookup |-> lookup, projection |-> projection,
   limit |-> limit]

\* findAll called without options.
NoOptions ==
  [defined |-> FALSE, sort |-> <<>>, lookup |-> NoLookup, projection |-> NoProjection,
   limit |-> 0]

\* Nothing has been asked of findAll yet.
NoRequest == [clazz |-> "Doc", query |-> Undefined, options |-> NoOptions]

\* findAll() has not been called.
QueryIdle ==
  /\ qcoll = [x \in QueryIds |-> NoDoc]
  /\ request = NoRequest
  /\ mongoQuery = [_class |-> Undefined, exists |-> ""]
  /\ found = {}
  /\ qpc = "idle"
  /\ related = [r \in RelatedIds |-> NoDoc]
  /\ rows = <<>>

\* find() has not been called.
IterIdle ==
  /\ hcoll = [x \in DocIds |-> NoHashDoc]
  /\ mode = "hashed"
  /\ iterator = NoCursor
  /\ bulkUpdate = {}
  /\ recheck = FALSE
  /\ calculateHash = "undefined"
  /\ ipc = "idle"
  /\ yielded = <<>>
  /\ ended = 0
  /\ computes = 0
  /\ pass = 1
  /\ firstPass = {}
  /\ hcoll0 = hcoll

TxInit ==
  /\ IdxIdle
  /\ PlaceIdle
  /\ RevIdle
  /\ db \in {d \in [Ids -> {NoDoc, NewDoc(1), WithMixin(NewDoc(1))}] :
               /\ Exists(d[1])
               /\ \A x \in Ids \ {1} : d[x] = NoDoc}
  /\ pc = "idle"
  /\ txes = <<>>
  /\ bulk = EmptyBulk
  /\ pending = {}
  /\ writeErr = FALSE
  /\ result = <<>>
  /\ issued = [ph \in {"insert", "update", "bulk", "find", "raw"} |-> 0]
  /\ lastOp = [x \in Ids |-> "none"]
  /\ rawLog = <<>>
  /\ db0 = db
  /\ inOrder = TRUE
  /\ error = "none"
  /\ UpdIdle
  /\ GateIdle
  /\ IterIdle
  /\ QueryIdle

TxNext ==
  \/ \E x \in TxIds : HashFlush(x)
  \/ TxStart
  \/ TxInsert
  \/ TxUpdate
  \/ TxBulkWrite
  \/ TxFindResult
  \/ TxRaw

Spec == TxInit /\ [][TxNext]_vars

\* ------------------------------------------- MongoAdapterBase.update
\* The DocumentUpdate values of the operations map.  The last one sets and
\* unsets the same path, which the backend rejects as a conflict.
UpdateValues ==
  { [f |-> 1],
    "f" :> 2 @@ "$unset" :> [arr |-> ""],
    "arr" :> <<"b">> @@ "$unset" :> [arr |-> ""],
    "f" :> 1 @@ "$unset" :> [f |-> "1"] }

\* const { $unset, ...set } = it[1]
SetOf(upd) == [k \in (DOMAIN upd) \ {"$unset"} |-> upd[k]]

\* $unset after `delete $unset[k]` for every key k of set with $unset[k] === ''
PrunedUnset(upd) ==
  LET unset == upd["$unset"]
  IN [k \in {u \in DOMAIN unset : ~(u \in DOMAIN SetOf(upd) /\ unset[u] = "")} |-> unset[k]]

\* Mutant: the write leaves the stored hash as it is.
UpdateOfKeepsHash(upd) ==
  IF "$unset" \in DOMAIN upd
  THEN "$set" :> SetOf(upd) @@ "$unset" :> PrunedUnset(upd)
  ELSE "$set" :> SetOf(upd)

\* The update document of one updateOne of the chunk.
UpdateOf(upd) ==
  IF "$unset" \in DOMAIN upd
  THEN "$set" :> (("%hash%" :> NULL) @@ SetOf(upd)) @@ "$unset" :> PrunedUnset(upd)
  ELSE "$set" :> (("%hash%" :> NULL) @@ SetOf(upd))

\* The backend rejects an update document that sets and unsets one path.
Rejected(upd) ==
  (DOMAIN Part(UpdateOf(upd), "$set")) \cap (DOMAIN Part(UpdateOf(upd), "$unset")) # {}

RECURSIVE ApplyEntries(_, _, _)
ApplyEntries(coll, part, idx) ==
  IF idx = {} THEN coll
  ELSE LET i == CHOOSE j \in idx : TRUE
           e == part[i]
       IN ApplyEntries(ApplyWrite(coll, UpdateOne([_id |-> e.id], UpdateOf(e.upd))),
                       part, idx \ {i})

\* Mutant: a failed chunk is given up at once.
AfterFailureNoRetry(part, rest, size) == [ops |-> rest, skip |-> 1]

\* Mutant: a failed chunk is always put back.
AfterFailureAlwaysRetry(part, rest, size) == [ops |-> rest \o part, skip |-> 1]

\* catch: if (skip !== 1) { ops.push(...part); skip = 1 }
AfterFailure(part, rest, size) ==
  IF size # 1
  THEN [ops |-> rest \o part, skip |-> 1]
  ELSE [ops |-> rest, skip |-> size]

\* update(domain, operations) is called with a map of the given values.
UpdStartFrom(values) ==
  /\ upc = "idle"
  /\ \E n \in 0..NumIds : \E m \in [1..n -> values] :
       LET entries == [i \in 1..n |-> [id |-> i, upd |-> m[i]]]
       IN /\ operations' = entries
          /\ ops' = entries
  /\ skip' = ChunkSize
  /\ upc' = "loop"
  /\ UNCHANGED <<submitted, lost, updResult, notUpd>>

UpdStart == UpdStartFrom(UpdateValues)

\* The call with operations the backend accepts or rejects for a conflict.
UpdStartPlain == UpdStartFrom({[f |-> 1], "f" :> 1 @@ "$unset" :> [f |-> "1"]})

\* One pass of the while loop: ops.splice(0, skip) and its unordered
\* bulkWrite; the catch logs the error with ctx.error and goes on.
\* bulkWrite.  A rejected bulk write leaves the accepted operations of the
\* chunk applied (write errors of an unordered bulk) or none of them (the
\* request is refused before it is sent).  With `transient` the backend
\* fails the bulk write whatever its operations are.
Chunk(transient) ==
  /\ upc = "loop"
  /\ ops # <<>>
  /\ \E n \in {Min(skip, Len(ops))} :
     \E part \in {SubSeq(ops, 1, n)} :
     \E rest \in {SubSeq(ops, n + 1, Len(ops))} :
     \E accepted \in {{i \in 1..n : ~Rejected(part[i].upd)}} :
        /\ submitted' = [x \in Ids |->
                           submitted[x] + Cardinality({i \in 1..n : part[i].id = x})]
        /\ IF accepted = 1..n /\ ~transient
           THEN /\ db' = ApplyEntries(db, part, accepted)
                /\ ops' = rest
                /\ skip' = skip
                /\ lost' = lost
           ELSE /\ \E applied \in {accepted, {}} : db' = ApplyEntries(db, part, applied)
                /\ ops' = AfterFailure(part, rest, skip).ops
                /\ skip' = AfterFailure(part, rest, skip).skip
                /\ lost' = IF skip = 1 THEN lost \cup {part[i].id : i \in 1..n} ELSE lost
  /\ UNCHANGED <<upc, operations, updResult, pc, txes, bulk, pending, writeErr, result, issued,
                 lastOp, rawLog, db0, inOrder, error, gateVars, iterVars, queryVars,
                 idxVars, placeVars, revVars>>

\* The backend fails a bulk write only for the operations it rejects.
UpdChunk == Chunk(FALSE)

\* The backend may fail any bulk write.
UpdChunkAny == \E transient \in BOOLEAN : Chunk(transient)

\* The loop ends and the promise of update resolves with no value: the
\* errors caught in the loop are not kept.
UpdReturn ==
  /\ upc = "loop"
  /\ ops = <<>>
  /\ upc' = "done"
  /\ updResult' = "resolved"
  /\ UNCHANGED <<ops, skip, operations, submitted, lost, notUpd>>

StoredDoc(x) == SetKey(NewDoc(x), "%hash%", HASHED)

UpdInit ==
  /\ IdxIdle
  /\ PlaceIdle
  /\ RevIdle
  /\ db = [x \in Ids |-> StoredDoc(x)]
  /\ pc = "idle"
  /\ txes = <<>>
  /\ bulk = EmptyBulk
  /\ pending = {}
  /\ writeErr = FALSE
  /\ result = <<>>
  /\ issued = [ph \in {"insert", "update", "bulk", "find", "raw"} |-> 0]
  /\ lastOp = [x \in Ids |-> "none"]
  /\ rawLog = <<>>
  /\ db0 = db
  /\ inOrder = TRUE
  /\ error = "none"
  /\ UpdIdle
  /\ GateIdle
  /\ IterIdle
  /\ QueryIdle

UpdNext == UpdStart \/ UpdChunk \/ UpdReturn

SpecUpdate == UpdInit /\ [][UpdNext]_vars

UpdAnyNext == UpdStartPlain \/ UpdChunkAny \/ UpdReturn

SpecUpdateAny == UpdInit /\ [][UpdAnyNext]_vars

\* Every awaited bulkWrite settles, so a loop that can go on does.
LiveUpdate == SpecUpdateAny /\ WF_vars(UpdChunkAny) /\ WF_vars(UpdReturn)

\* ------------------------------------------------- admission gates
\* Concurrent findAll and tx calls on one adapter instance.  A gate is a
\* RateLimiter: exec suspends the caller while the gate holds as many
\* running operations as its capacity, runs the operation, and releases the
\* slot when the operation's promise settles, fulfilled or rejected.

\* Mutant: findAll runs its body outside the read gate.
GateOfUngated(a, o) == IF o = "tx" /\ a = "MongoAdapter" THEN "rateLimit" ELSE "none"

\* The gate an operation's body runs under: findAll under findRateLimit,
\* MongoAdapter.tx under rateLimit, MongoTxAdapter.tx under none.
GateOf(a, o) ==
  CASE o = "find" -> "findRateLimit"
    [] o = "tx" /\ a = "MongoAdapter" -> "rateLimit"
    [] OTHER -> "none"

Capacity(g) == IF g = "findRateLimit" THEN FIND_RLIMIT ELSE TX_RLIMIT

Holders(g) == IF g = "findRateLimit" THEN findRateLimit ELSE rateLimit

\* The domain groups a call starts: findAll one query, MongoAdapter.tx one
\* group per domain of the batch, MongoTxAdapter.tx one insertMany.
CallShapes(a, o) ==
  IF o = "tx" /\ a = "MongoAdapter" THEN {{"d1"}, {"d1", "d2"}} ELSE {{"d1"}}

Running(p) == {d \in Domains : groups[p][d] = "running"}

\* Mutant: a rejected operation keeps its slot.
ReleaseOnSuccess(p, g, ok) == IF ok THEN Holders(g) \ {p} ELSE Holders(g)

\* exec's release of the slot once the operation has settled.
Release(p, g, ok) == Holders(g) \ {p}

SetHolders(g, h) ==
  /\ findRateLimit' = IF g = "findRateLimit" THEN h ELSE findRateLimit
  /\ rateLimit' = IF g = "rateLimit" THEN h ELSE rateLimit

\* A caller calls findAll or tx; the work it will start is fixed by its
\* arguments.  An ungated operation starts at once.
GateCall(p) ==
  /\ st[p] = "idle"
  /\ \E o \in {"find", "tx"} : \E D \in CallShapes(adapter, o) :
       /\ operation' = [operation EXCEPT ![p] = o]
       /\ IF GateOf(adapter, o) = "none"
          THEN /\ st' = [st EXCEPT ![p] = "running"]
               /\ groups' = [groups EXCEPT ![p] =
                               [d \in Domains |-> IF d \in D THEN "running" ELSE "none"]]
          ELSE /\ st' = [st EXCEPT ![p] = "waiting"]
               /\ groups' = [groups EXCEPT ![p] =
                               [d \in Domains |-> IF d \in D THEN "queued" ELSE "none"]]
  /\ UNCHANGED <<adapter, findRateLimit, rateLimit, failed, notGate>>

\* exec admits the caller once the gate has a free slot; the body starts
\* every domain group of the call.
GateAdmit(p) ==
  /\ st[p] = "waiting"
  /\ LET g == GateOf(adapter, operation[p])
     IN /\ Cardinality(Holders(g)) < Capacity(g)
        /\ SetHolders(g, Holders(g) \cup {p})
  /\ st' = [st EXCEPT ![p] = "running"]
  /\ groups' = [groups EXCEPT ![p] =
                  [d \in Domains |-> IF @[d] = "queued" THEN "running" ELSE @[d]]]
  /\ UNCHANGED <<adapter, operation, failed, notGate>>

\* The backend work of one domain group ends, with or without an error.
GroupEnd(p, d) ==
  /\ groups[p][d] = "running"
  /\ \E r \in {"done", "failed"} : groups' = [groups EXCEPT ![p][d] = r]
  /\ UNCHANGED <<adapter, findRateLimit, rateLimit, operation, st, failed, notGate>>

\* The promise of the call's body settles: Promise.all rejects with the
\* first failed group and is fulfilled when every group is done.  The gate
\* slot is released and the call returns to its caller; groups still
\* running go on at the backend.
GateSettle(p) ==
  /\ st[p] = "running"
  /\ LET bad == \E d \in Domains : groups[p][d] = "failed"
         g == GateOf(adapter, operation[p])
     IN /\ bad \/ Running(p) = {}
        /\ IF g = "none" THEN UNCHANGED <<findRateLimit, rateLimit>>
           ELSE SetHolders(g, Release(p, g, ~bad))
        /\ failed' = IF bad THEN failed \cup {operation[p]} ELSE failed
  /\ IF Running(p) = {}
     THEN /\ st' = [st EXCEPT ![p] = "idle"]
          /\ operation' = [operation EXCEPT ![p] = "none"]
          /\ groups' = [groups EXCEPT ![p] = [d \in Domains |-> "none"]]
     ELSE /\ st' = [st EXCEPT ![p] = "detached"]
          /\ UNCHANGED <<operation, groups>>
  /\ UNCHANGED <<adapter, notGate>>

\* The last group of a call that has already been rejected ends.
GateFinish(p) ==
  /\ st[p] = "detached"
  /\ Running(p) = {}
  /\ st' = [st EXCEPT ![p] = "idle"]
  /\ operation' = [operation EXCEPT ![p] = "none"]
  /\ groups' = [groups EXCEPT ![p] = [d \in Domains |-> "none"]]
  /\ UNCHANGED <<adapter, findRateLimit, rateLimit, failed, notGate>>

GateInit ==
  /\ IdxIdle
  /\ PlaceIdle
  /\ RevIdle
  /\ db = [x \in Ids |-> NoDoc]
  /\ pc = "idle"
  /\ txes = <<>>
  /\ bulk = EmptyBulk
  /\ pending = {}
  /\ writeErr = FALSE
  /\ result = <<>>
  /\ issued = [ph \in {"insert", "update", "bulk", "find", "raw"} |-> 0]
  /\ lastOp = [x \in Ids |-> "none"]
  /\ rawLog = <<>>
  /\ db0 = db
  /\ inOrder = TRUE
  /\ error = "none"
  /\ UpdIdle
  /\ IterIdle
  /\ QueryIdle
  /\ adapter \in {"MongoAdapter", "MongoTxAdapter"}
  /\ findRateLimit = {}
  /\ rateLimit = {}
  /\ operation = [p \in Callers |-> "none"]
  /\ st = [p \in Callers |-> "idle"]
  /\ groups = [p \in Callers |-> [d \in Domains |-> "none"]]
  /\ failed = {}

GateNext ==
  \E p \in Callers :
    \/ GateCall(p)
    \/ GateAdmit(p)
    \/ \E d \in Domains : GroupEnd(p, d)
    \/ GateSettle(p)
    \/ GateFinish(p)

SpecGate == GateInit /\ [][GateNext]_vars

\* The scheduler runs every settled promise's continuation and the backend
\* ends every operation it was given; a waiting caller is not passed over
\* for ever.
GateFairness ==
  \A p \in Callers :
    /\ SF_vars(GateAdmit(p))
    /\ WF_vars(GateSettle(p))
    /\ WF_vars(GateFinish(p))
    /\ \A d \in Domains : WF_vars(GroupEnd(p, d))

LiveGate == SpecGate /\ GateFairness

\* ------------------------------------------- MongoAdapterBase.find
\* Strings the iterator formats and parses are sequences of characters.
HexDigits == <<"0", "1", "2", "3", "4", "5", "6", "7", "8", "9", "a", "b", "c", "d", "e", "f">>

IsHex(c) == \E i \in 1..16 : HexDigits[i] = c

HexValue(c) == (CHOOSE i \in 1..16 : HexDigits[i] = c) - 1

\* size.toString(16)
RECURSIVE toString16(_)
toString16(n) ==
  IF n < 16 THEN <<HexDigits[n + 1]>>
  ELSE toString16(n \div 16) \o <<HexDigits[(n % 16) + 1]>>

NaN == -1

RECURSIVE LeadingHex(_)
LeadingHex(str) ==
  IF str = <<>> \/ ~IsHex(Head(str)) THEN <<>> ELSE <<Head(str)>> \o LeadingHex(Tail(str))

RECURSIVE HexNumber(_)
HexNumber(str) ==
  IF str = <<>> THEN 0
  ELSE 16 * HexNumber(SubSeq(str, 1, Len(str) - 1)) + HexValue(str[Len(str)])

\* parseInt(str, 16): the number written by the leading hex digits, NaN
\* when there is none.
parseInt16(str) == IF LeadingHex(str) = <<>> THEN NaN ELSE HexNumber(LeadingHex(str))

\* str.indexOf('|')
indexOf(str) ==
  IF \E i \in 1..Len(str) : str[i] = "|"
  THEN (CHOOSE i \in 1..Len(str) : str[i] = "|" /\ \A j \in 1..(i - 1) : str[j] # "|") - 1
  ELSE -1

\* str.slice(from, to) for from >= 0; a negative `to` counts from the end.
slice(str, from, to) == SubSeq(str, from + 1, IF to < 0 THEN Len(str) + to ELSE to)

\* estimateDocSize(d): a stand-in that depends on the document.
estimateDocSize(x) == 10 * x

\* The digest of document x: the base64 sha256 digest when the adapter has
\* no options.calculateHash, else what the caller's function returns; the
\* caller's function of the model returns a digest with a '|' in it.
Digest(option, x) ==
  IF option = "undefined" THEN <<"h", HexDigits[x + 1]>> ELSE <<"c", "|", HexDigits[x + 1]>>

\* `${digest}|${size.toString(16)}`
Format(digest, size) == digest \o <<"|">> \o toString16(size)

\* What next() returns for a document with a stored digest.
StoredYield(x, digest) ==
  [id |-> x,
   hash |-> slice(digest, 0, indexOf(digest)),
   size |-> parseInt16(slice(digest, indexOf(digest) + 1, Len(digest)))]

\* { '%hash%': { $nin: ['', null] } }
InHashed(h) == h.kind = "string" /\ h.chars # <<>>

\* Mutant: the second query misses the documents without the field.
InNonHashedNoAbsent(h) == h.kind = "null" \/ (h.kind = "string" /\ h.chars = <<>>)

\* { '%hash%': { $in: ['', null] } }
InNonHashed(h) == h.kind \in {"null", "absent"} \/ (h.kind = "string" /\ h.chars = <<>>)

InQuery(md, h) == IF md = "hashed" THEN InHashed(h) ELSE InNonHashed(h)

\* iterator.next(): the next document of the query after position pos in
\* the collection's order, 0 for null.
NextId(c, md, pos) ==
  LET left == {x \in DocIds : x > pos /\ InQuery(md, c[x])}
  IN IF left = {} THEN 0 ELSE CHOOSE x \in left : \A y \in left : x <= y

\* Mutant: the flush writes nothing.
WriteHashesDropped(c, buffer) == c

\* coll.bulkWrite of the buffered values: updateOne { _id } $set %hash%.
WriteHashes(c, buffer) ==
  [x \in DocIds |->
     IF c[x].kind # "nodoc" /\ \E e \in buffer : e[1] = x
     THEN StringHash((CHOOSE e \in buffer : e[1] = x)[2])
     ELSE c[x]]

\* Mutant: recheck leaves the stored hashes as they are.
InvalidateNone(c) == c

\* coll.updateMany({ '%hash%': { $ne: null } }, { $set: { '%hash%': null } })
Invalidate(c) == [x \in DocIds |-> IF c[x].kind = "string" THEN NullHash ELSE c[x]]

\* next(), first call with recheck: the updateMany.
NextRecheck ==
  /\ ipc = "ready"
  /\ iterator.state = "undefined"
  /\ recheck
  /\ hcoll' = Invalidate(hcoll)
  /\ ipc' = "fetch"
  /\ UNCHANGED <<mode, iterator, bulkUpdate, recheck, calculateHash, yielded, ended, computes,
                 pass, firstPass, hcoll0, notIter>>

\* The content of document x as the hash function sees it: it changes with
\* every update of the document.
Content(x) == IF x = 0 THEN 0 ELSE x + NumDocs * rev[x]

\* next() from the creation of the cursor to its return, or to the flush
\* of a buffer over the threshold.
NextFetch ==
  /\ \/ ipc = "fetch"
     \/ ipc = "ready" /\ ~(iterator.state = "undefined" /\ recheck)
  /\ LET pos0 == IF iterator.state = "undefined" THEN 0 ELSE iterator.pos
         d1 == NextId(hcoll, mode, pos0)
         switch == d1 = 0 /\ mode = "hashed"
         md == IF switch THEN "non-hashed" ELSE mode
         d == IF switch THEN NextId(hcoll, "non-hashed", 0) ELSE d1
         h == IF d = 0 THEN NoHashDoc ELSE hcoll[d]
         size == estimateDocSize(d)
         digest == Digest(calculateHash, Content(d))
     IN /\ mode' = md
        /\ iterator' = [state |-> "open", pos |-> IF d = 0 THEN NumDocs ELSE d]
        /\ IF d = 0
           THEN /\ ended' = Min(ended + 1, 2)
                /\ ipc' = "ready"
                /\ UNCHANGED <<bulkUpdate, yielded, computes>>
           ELSE IF h.kind # "string" \/ h.chars = <<>>
           THEN /\ bulkUpdate' = bulkUpdate \cup {<<d, Format(digest, size)>>}
                /\ computes' = computes + 1
                /\ yielded' = Append(yielded, [id |-> d, hash |-> digest, size |-> size])
                /\ ipc' = IF Cardinality(bulkUpdate') > FlushLimit THEN "flush" ELSE "ready"
                /\ ended' = ended
           ELSE /\ yielded' = Append(yielded, StoredYield(d, h.chars))
                /\ ipc' = "ready"
                /\ UNCHANGED <<bulkUpdate, computes, ended>>
  /\ UNCHANGED <<hcoll, recheck, calculateHash, pass, firstPass, hcoll0, notIter>>

\* next(): flush() with the buffer over the threshold, then the return.
NextFlush ==
  /\ ipc = "flush"
  /\ hcoll' = WriteHashes(hcoll, bulkUpdate)
  /\ bulkUpdate' = {}
  /\ ipc' = "ready"
  /\ UNCHANGED <<mode, iterator, recheck, calculateHash, yielded, ended, computes, pass,
                 firstPass, hcoll0, notIter>>

\* close(): flush(true).
CloseFlush ==
  /\ ipc = "ready"
  /\ hcoll' = WriteHashes(hcoll, bulkUpdate)
  /\ bulkUpdate' = {}
  /\ ipc' = "closing"
  /\ UNCHANGED <<mode, iterator, recheck, calculateHash, yielded, ended, computes, pass,
                 firstPass, hcoll0, notIter>>

\* close(): iterator.close(), a TypeError when next() was never called.
CloseCursor ==
  /\ ipc = "closing"
  /\ IF iterator.state = "undefined"
     THEN /\ ipc' = "TypeError"
          /\ iterator' = iterator
     ELSE /\ ipc' = "closed"
          /\ iterator' = [iterator EXCEPT !.state = "closed"]
  /\ UNCHANGED <<hcoll, mode, bulkUpdate, recheck, calculateHash, yielded, ended, computes, pass,
                 firstPass, hcoll0, notIter>>

Triples(seq) == {seq[i] : i \in 1..Len(seq)}

\* find(domain, recheck) is called once more on the same adapter.
FindAgain ==
  /\ ipc = "closed"
  /\ pass = 1
  /\ pass' = 2
  /\ firstPass' = Triples(yielded)
  /\ hcoll0' = hcoll
  /\ mode' = "hashed"
  /\ iterator' = NoCursor
  /\ bulkUpdate' = {}
  /\ ipc' = "ready"
  /\ yielded' = <<>>
  /\ ended' = 0
  /\ computes' = 0
  /\ UNCHANGED <<hcoll, recheck, calculateHash, notIter>>

\* The metadata a document can be stored with: none, the field absent,
\* null, '', or the value an earlier pass of this adapter has written.
HashStates(option, x) ==
  {NoHashDoc, AbsentHash, NullHash, StringHash(<<>>),
   StringHash(Format(Digest(option, x), estimateDocSize(x)))}

IterInit ==
  /\ IdxIdle
  /\ PlaceIdle
  /\ RevIdle
  /\ db = [x \in Ids |-> NoDoc]
  /\ pc = "idle"
  /\ txes = <<>>
  /\ bulk = EmptyBulk
  /\ pending = {}
  /\ writeErr = FALSE
  /\ result = <<>>
  /\ issued = [ph \in {"insert", "update", "bulk", "find", "raw"} |-> 0]
  /\ lastOp = [x \in Ids |-> "none"]
  /\ rawLog = <<>>
  /\ db0 = db
  /\ inOrder = TRUE
  /\ error = "none"
  /\ UpdIdle
  /\ GateIdle
  /\ QueryIdle
  /\ calculateHash \in {"undefined", "custom"}
  /\ hcoll \in {c \in [DocIds -> UNION {HashStates(calculateHash, x) : x \in DocIds}] :
                 \A x \in DocIds : c[x] \in HashStates(calculateHash, x)}
  /\ recheck \in BOOLEAN
  /\ mode = "hashed"
  /\ iterator = NoCursor
  /\ bulkUpdate = {}
  /\ ipc = "ready"
  /\ yielded = <<>>
  /\ ended = 0
  /\ computes = 0
  /\ pass = 1
  /\ firstPass = {}
  /\ hcoll0 = hcoll

IterNext == NextRecheck \/ NextFetch \/ NextFlush \/ CloseFlush \/ CloseCursor \/ FindAgain

SpecFind == IterInit /\ [][IterNext]_vars

\* --------------------------------------------- close() called again
\* close() on an iterator that is closed: flush(true) finds the buffer
\* cleared, and the backend cursor accepts a close when it is closed.
CloseAgain ==
  /\ ipc = "closed"
  /\ hcoll' = WriteHashes(hcoll, bulkUpdate)
  /\ bulkUpdate' = {}
  /\ ipc' = "closed again"
  /\ UNCHANGED <<mode, iterator, recheck, calculateHash, yielded, ended, computes, pass,
                 firstPass, hcoll0, notIter>>

CloseNext ==
  \/ NextRecheck
  \/ NextFetch
  \/ NextFlush
  \/ CloseFlush
  \/ CloseCursor
  \/ CloseAgain

SpecClose == IterInit /\ [][CloseNext]_vars

\* ------------------------------ find interleaved with tx and update
MaxRev == 1

\* The backend applies the update of document x that a tx or an update call
\* has issued: the content changes and the update sets '%hash%' to null.
WriteDoc(x) ==
  /\ hcoll[x].kind # "nodoc"
  /\ rev[x] < MaxRev
  /\ rev' = [rev EXCEPT ![x] = @ + 1]
  /\ hcoll' = [hcoll EXCEPT ![x] = NullHash]
  /\ UNCHANGED <<mode, iterator, bulkUpdate, recheck, calculateHash, ipc, yielded, ended,
                 computes, pass, firstPass, hcoll0, txVars, updVars, gateVars, queryVars,
                 idxVars, placeVars>>

MixedNext ==
  \/ NextRecheck
  \/ NextFetch
  \/ NextFlush
  \/ CloseFlush
  \/ CloseCursor
  \/ \E x \in DocIds : WriteDoc(x)

\* Every document of the domain is stored, with the hash of its content or
\* with a null hash.
MixedInit ==
  /\ IterInit
  /\ \A x \in DocIds : hcoll[x].kind \in {"null", "string"} /\ hcoll[x] # StringHash(<<>>)

SpecFindMixed == MixedInit /\ [][MixedNext]_vars

\* ---------------------------------------- MongoAdapterBase.findAll
\* The hierarchy the adapter is given: the root Doc, the class C with its
\* descendants D1 and D2, its mixin M, and the sibling class E; the lookup
\* target T with its descendant TD and the class U of the same domain, and
\* the class TM whose documents live in the in-memory model.
ClassOrder == <<"Doc", "C", "D1", "D2", "M", "E", "T", "TD", "U", "TM">>

Extends ==
  ("C" :> "Doc" @@ "D1" :> "C" @@ "D2" :> "D1" @@ "M" :> "C" @@ "E" :> "Doc"
   @@ "T" :> "Doc" @@ "TD" :> "T" @@ "U" :> "Doc" @@ "TM" :> "Doc")

DOMAIN_MODEL == "model"

isMixin(c) == c \in Mixins

RECURSIVE Ancestors(_)
Ancestors(c) == IF c = "Doc" THEN {c} ELSE {c} \cup Ancestors(Extends[c])

\* hierarchy.getDescendants: the class, its sub-classes and their mixins.
getDescendants(c) == SelectSeq(ClassOrder, LAMBDA x : c \in Ancestors(x))

\* hierarchy.getBaseClass: the nearest ancestor that is no mixin.
RECURSIVE getBaseClass(_)
getBaseClass(c) == IF isMixin(c) THEN getBaseClass(Extends[c]) ELSE c

Includes(list, c) == \E i \in 1..Len(list) : list[i] = c

NoMixins(list) == SelectSeq(list, LAMBDA x : ~isMixin(x))

In(list) == ClassValue("object", "", TRUE, list, FALSE, <<>>)

\* The root branch that leaves the caller's class constraint in the filter.
DeleteClassKept(v) == v

\* if ('_class' in translated) delete translated._class
DeleteClass(v) == Undefined

\* translated._class after the branch on the base class.
ClassFilter(clazz, v) ==
  LET classes == getDescendants(getBaseClass(clazz))
      inDesc == IF v.hasIn THEN SelectSeq(v.inList, LAMBDA c : Includes(classes, c))
                ELSE classes
      descendants == IF v.hasNin THEN SelectSeq(inDesc, LAMBDA c : ~Includes(v.ninList, c))
                     ELSE inDesc
  IN IF getBaseClass(clazz) # "Doc"
     THEN CASE v.t = "undefined" -> In(classes)
            [] v.t = "string" -> IF Includes(classes, v.s) THEN v ELSE In(NoMixins(classes))
            [] OTHER -> In(NoMixins(descendants))
     ELSE DeleteClass(v)

\* if (translated._class?.$in?.length === 1 && $nin === undefined)
Simplify(v) ==
  IF v.t = "object" /\ v.hasIn /\ Len(v.inList) = 1 /\ ~v.hasNin
  THEN ClassValue("string", v.inList[1], FALSE, <<>>, FALSE, <<>>)
  ELSE v

\* The emitted filter: the class constraint and, for a mixin, the key that
\* has to exist.
translateQuery(clazz, q) ==
  [_class |-> Simplify(ClassFilter(clazz, q)),
   exists |-> IF getBaseClass(clazz) # "Doc" /\ getBaseClass(clazz) # clazz THEN clazz ELSE ""]

ClassMatches(v, c) ==
  CASE v.t = "undefined" -> TRUE
    [] v.t = "string" -> c = v.s
    [] OTHER -> (v.hasIn => Includes(v.inList, c)) /\ (v.hasNin => ~Includes(v.ninList, c))

\* coll.find(mongoQuery) on one document.
QueryMatches(doc, f) ==
  /\ ClassMatches(f._class, doc["_class"])
  /\ f.exists # "" => f.exists \in DOMAIN doc

\* The document stored under x, of class c, with or without the namespace
\* of M.
QueryDoc(x, c, m) ==
  IF m THEN ("_id" :> x @@ "_class" :> c @@ "M" :> [k |-> 1])
  ELSE ("_id" :> x @@ "_class" :> c)

QueryDocs(x) == {NoDoc} \cup {QueryDoc(x, c, m) : c \in {"C", "D1", "D2", "E", "M"}, m \in BOOLEAN}

\* The class constraints of the queries: none, a single class, $in, $nin.
ClassConstraints ==
  {Undefined,
   ClassValue("string", "D1", FALSE, <<>>, FALSE, <<>>),
   ClassValue("string", "E", FALSE, <<>>, FALSE, <<>>),
   In(<<"D1", "E">>),
   In(<<"D1", "M">>),
   ClassValue("object", "", FALSE, <<>>, TRUE, <<"D2">>)}

\* hierarchy.getDomain
getDomain(c) ==
  CASE c \in {"T", "TD", "U"} -> "d2"
    [] c = "TM" -> DOMAIN_MODEL
    [] OTHER -> "d1"

\* The attributes of C: priority is an enum, dueDate a date, ref a
\* reference; none of them belongs to a mixin, so translateKey and
\* checkMixinKey leave their keys as they are.
isDate(key) == key = "dueDate"

\* enumOf.enumValues, the empty list when the attribute is no enum.
getEnumById(key) == IF key = "priority" THEN <<"LOW", "MEDIUM", "HIGH">> ELSE <<>>

isEnumSort(options) ==
  \E i \in 1..Len(options.sort) : getEnumById(options.sort[i].key) # <<>>

\* A sort entry is [key, order], or carries a rule set, { order, cases,
\* default }, under `rules`: typeof options.sort[key] === 'object'.
IsRules(e) == "rules" \in DOMAIN e

isRulesSort(options) == \E i \in 1..Len(options.sort) : IsRules(options.sort[i])

\* The condition of findAll that selects findWithPipeline.
UsesPipeline(options) ==
  options.defined
    /\ (options.lookup.kind # "none" \/ isEnumSort(options) \/ isRulesSort(options))

\* key.includes(part)
StringIncludes(key, part) ==
  \E i \in 1..Len(key) :
    i + Len(part) - 1 <= Len(key) /\ SubSeq(key, i, i + Len(part) - 1) = part

\* key.split('.').filter((p) => p)
RECURSIVE SplitDots(_)
SplitDots(key) ==
  IF key = "" THEN <<>>
  ELSE IF ~StringIncludes(key, ".") THEN <<key>>
  ELSE LET i == CHOOSE j \in 1..Len(key) :
                  /\ SubSeq(key, j, j) = "."
                  /\ \A k \in 1..(j - 1) : SubSeq(key, k, k) # "."
       IN (IF i = 1 THEN <<>> ELSE <<SubSeq(key, 1, i - 1)>>)
            \o SplitDots(SubSeq(key, i + 1, Len(key)))

endsWith(key, part) ==
  Len(key) >= Len(part) /\ SubSeq(key, Len(key) - Len(part) + 1, Len(key)) = part

\* The loop of translateKey from position i of arr on; the attributes of
\* the modelled classes belong to no mixin, so checkMixinKey changes
\* nothing.
RECURSIVE translateKeyFrom(_, _, _)
translateKeyFrom(arr, i, tKey) ==
  IF i > Len(arr) THEN tKey
  ELSE IF arr[i] = "$lookup"
  THEN translateKeyFrom(arr, i + 2,
                        tKey \o (IF i + 1 <= Len(arr) THEN arr[i + 1] ELSE "undefined")
                             \o "_lookup")
  ELSE translateKeyFrom(arr, i + 1,
         (IF ~endsWith(tKey, ".") /\ i > 1 THEN tKey \o "." ELSE tKey)
           \o arr[i] \o (IF i # Len(arr) THEN "." ELSE ""))

translateKey(key) == translateKeyFrom(SplitDots(key), 1, "")

\* The field predicates of a query, a list of [key, value] entries: the
\* query is its class constraint, carrying them under `fields` when it has
\* any.
QueryFields(query) == IF "fields" \in DOMAIN query THEN query.fields ELSE <<>>

isLookupQuery(query) ==
  \E i \in 1..Len(QueryFields(query)) : StringIncludes(QueryFields(query)[i].key, "$lookup.")

\* Mutant: only the predicate decides the place of the join steps.
isLookupSortNever(sort) == FALSE

isLookupSort(sort) == \E i \in 1..Len(sort) : StringIncludes(sort[i].key, "$lookup.")

\* The values a translated key, split at its dots into arr, addresses in
\* d: the value of the field, or, through an array of joined documents,
\* the values of its elements.
PathValues(d, arr) ==
  IF Len(arr) = 1 THEN (IF Has(d, arr[1]) THEN {d[arr[1]]} ELSE {})
  ELSE IF Has(d, arr[1])
  THEN {d[arr[1]][i][arr[2]] : i \in {j \in 1..Len(d[arr[1]]) : Has(d[arr[1]][j], arr[2])}}
  ELSE {}

\* $match of one translated field predicate { key: value }.
FieldMatches(d, arr, value) == value \in PathValues(d, arr)

\* The date values, in ascending order.
DateValues == <<"2024-01-01", "2024-06-01">>

\* The string values of the attributes title and name, in ascending order.
StringValues == <<"x", "y">>

IndexOf(list, v) ==
  IF Includes(list, v) THEN CHOOSE i \in 1..Len(list) : list[i] = v ELSE 0

\* The place of the document's value in the backend's ascending order of a
\* date attribute: null and missing compare equal and come first.
ValueRank(d, key) ==
  IF ~Has(d, key) THEN 0
  ELSE IF d[key] = NULL THEN 0
  ELSE IndexOf(DateValues \o StringValues, d[key])

\* The same for a key that leads through an array of joined documents: an
\* ascending sort compares the least of the values, a descending sort the
\* greatest, and an array without values compares lowest.
ArrayRank(d, arr, dir) ==
  LET ranks == {IndexOf(DateValues \o StringValues, v) : v \in PathValues(d, arr)}
  IN IF ranks = {} THEN 0
     ELSE IF dir = 1 THEN CHOOSE r \in ranks : \A q \in ranks : r <= q
     ELSE CHOOSE r \in ranks : \A q \in ranks : r >= q

\* sort[key] = 1 or -1 on the translated key, split at its dots into arr.
SortRank(d, arr, dir) ==
  IF Len(arr) > 1 THEN dir * ArrayRank(d, arr, dir) ELSE dir * ValueRank(d, arr[1])

\* Mutant: the enum values are ranked by their names.
EnumRankLexical(enumValues, d, key) ==
  IF Has(d, key) /\ Includes(enumValues, d[key])
  THEN IndexOf(<<"HIGH", "LOW", "MEDIUM">>, d[key]) - 1
  ELSE Len(enumValues)

\* The $switch of fillEnumSort: the index of the value, else the default.
EnumRank(enumValues, d, key) ==
  IF Has(d, key) /\ Includes(enumValues, d[key])
  THEN IndexOf(enumValues, d[key]) - 1
  ELSE Len(enumValues)

\* sort_isNull_<key> of fillDateSort, false below true.
IsNullOrMissing(d, key) == IF ~Has(d, key) THEN 1 ELSE IF d[key] = NULL THEN 1 ELSE 0

Direction(order) == IF order = "Ascending" THEN 1 ELSE -1

\* The branches of the $switch fillCustomSort builds, one per case in list
\* order: the expression of the case as it is written into the pipeline,
\* and selector.index as its result.  A selector with $in becomes
\* { $in: { [key]: q.$in } } and one with $nin { $nin: { [key]: q.$in } }.
fillCustomSort(rules) ==
  [i \in 1..Len(rules.cases) |->
     LET selector == rules.cases[i]
     IN CASE selector.op = "$in" ->
               [expr |-> "$in", form |-> "object", arg |-> selector.values,
                then |-> selector.index]
          [] selector.op = "$nin" ->
               [expr |-> "$nin", form |-> "object", arg |-> <<>>, then |-> selector.index]
          [] selector.op = "$ne" ->
               [expr |-> "$ne", form |-> "array", arg |-> selector.values,
                then |-> selector.index]
          [] OTHER ->
               [expr |-> "$eq", form |-> "array", arg |-> selector.values,
                then |-> selector.index]]

\* default: rules.default ?? branches.length
DefaultRank(rules) == IF rules.hasDefault THEN rules.default ELSE Len(rules.cases)

\* The $addFields and $sort stages fillSortPipeline pushes, one entry per
\* key of options.sort in the caller's order: the kind of the sort, the
\* translated key split at its dots, the direction, and for a rule set the
\* branches and the default of its $switch.
fillSortPipeline(sort) ==
  [i \in 1..Len(sort) |->
     [kind |-> IF IsRules(sort[i]) THEN "rules"
               ELSE IF isDate(sort[i].key) THEN "date"
               ELSE IF getEnumById(sort[i].key) # <<>> THEN "enum"
               ELSE "ordinary",
      key |-> sort[i].key,
      path |-> SplitDots(translateKey(sort[i].key)),
      dir |-> IF IsRules(sort[i]) THEN Direction(sort[i].rules.order)
              ELSE Direction(sort[i].order),
      branches |-> IF IsRules(sort[i]) THEN fillCustomSort(sort[i].rules) ELSE <<>>,
      default |-> IF IsRules(sort[i]) THEN DefaultRank(sort[i].rules) ELSE 0]]

\* The backend accepts the expression of a branch: the aggregation
\* operators $eq, $ne and $in take an array of two arguments, and $nin is
\* no aggregation operator.
ValidExpression(branch) == branch.expr \in {"$eq", "$ne", "$in"} /\ branch.form = "array"

\* The backend rejects the pipeline: aggregate throws, findWithPipeline
\* logs the error and throws it on.
InvalidPipeline(stages) ==
  \E i \in 1..Len(stages) : \E j \in 1..Len(stages[i].branches) :
    ~ValidExpression(stages[i].branches[j])

\* The value of one valid branch expression on d: a missing field equals
\* no value.
CaseHolds(branch, d, key) ==
  IF branch.expr = "$eq" THEN Has(d, key) /\ <<d[key]>> = branch.arg
  ELSE ~(Has(d, key) /\ <<d[key]>> = branch.arg)

\* $switch: the result of the first branch, in list order, whose case
\* holds, else the default.
SwitchRank(branches, default, d, key) ==
  IF \E i \in 1..Len(branches) : CaseHolds(branches[i], d, key)
  THEN branches[CHOOSE i \in 1..Len(branches) :
                  /\ CaseHolds(branches[i], d, key)
                  /\ \A j \in 1..(i - 1) : ~CaseHolds(branches[j], d, key)].then
  ELSE default

\* The values the backend compares for d under these stages, each negated
\* when its direction is -1.
RECURSIVE SortVector(_, _)
SortVector(d, stages) ==
  IF stages = <<>> THEN <<>>
  ELSE LET e == Head(stages)
       IN (CASE e.kind = "date" ->
                  <<e.dir * IsNullOrMissing(d, e.key), e.dir * ValueRank(d, e.key)>>
             [] e.kind = "enum" -> <<e.dir * EnumRank(getEnumById(e.key), d, e.key)>>
             [] e.kind = "rules" -> <<e.dir * SwitchRank(e.branches, e.default, d, e.key)>>
             [] OTHER -> <<SortRank(d, e.path, e.dir)>>) \o SortVector(d, Tail(stages))

\* The sort of collectSort, in the same form.
collectSort(d, sort) ==
  [i \in 1..Len(sort) |-> Direction(sort[i].order) * ValueRank(d, sort[i].key)]

RECURSIVE LexLess(_, _)
LexLess(a, b) ==
  IF a = <<>> THEN FALSE
  ELSE IF Head(a) # Head(b) THEN Head(a) < Head(b)
  ELSE LexLess(Tail(a), Tail(b))

\* The orders in which the backend may return the documents S when it sorts
\* them by keys: documents that compare equal come in any order.
RECURSIVE Sorted(_, _)
Sorted(S, keys) ==
  IF S = {} THEN {<<>>}
  ELSE UNION {{<<m>> \o t : t \in Sorted(S \ {m}, keys)} :
                m \in {x \in S : \A y \in S : ~LexLess(keys[y], keys[x])}}

Restrict(d, K) == [k \in K |-> d[k]]

stripHash(d) == Restrict(d, (DOMAIN d) \ {"%hash%"})

\* cursor.project / $project: the explicit projection, else { '%hash%': 0 }.
Project(d, projection) ==
  CASE projection.kind = "include" ->
         Restrict(d, (DOMAIN d) \cap (projection.keys \cup {"_id"}))
    [] projection.kind = "exclude" -> Restrict(d, (DOMAIN d) \ projection.keys)
    [] OTHER -> stripHash(d)

\* The documents of `related` a $lookup step joins to d, as the step's
\* pipeline leaves them; listed by identifier.
RECURSIVE Joined(_, _, _)
Joined(d, lookup, ids) ==
  IF ids = {} THEN <<>>
  ELSE LET r == CHOOSE x \in ids : \A y \in ids : x <= y
           doc == related[r]
           joins ==
             /\ Exists(doc)
             /\ getDomain(doc["_class"]) = getDomain(lookup.target)
             /\ IF lookup.kind = "forward"
                THEN Has(d, lookup.key) /\ Includes(d[lookup.key], r)
                ELSE /\ Has(doc, lookup.attr)
                     /\ doc[lookup.attr] = d["_id"]
                     /\ Includes(getDescendants(lookup.target), doc["_class"])
       IN (IF joins THEN <<stripHash(doc)>> ELSE <<>>) \o Joined(d, lookup, ids \ {r})

\* The values of the local field "<key>_lookup.<nested key>" of d: the
\* references the documents joined under <key>_lookup hold.
NestedValues(d, lookup) ==
  LET fullKey == lookup.key \o "_lookup"
      n == lookup.nested[1]
      arr == IF Has(d, fullKey) THEN d[fullKey] ELSE <<>>
  IN UNION {IF Has(arr[i], n.key)
            THEN {arr[i][n.key][j] : j \in 1..Len(arr[i][n.key])}
            ELSE {} : i \in 1..Len(arr)}

\* The documents of the target's domain whose _id is among values, as the
\* step's pipeline leaves them.
RECURSIVE JoinedById(_, _, _)
JoinedById(values, target, ids) ==
  IF ids = {} THEN <<>>
  ELSE LET r == CHOOSE x \in ids : \A y \in ids : x <= y
           doc == related[r]
           joins == /\ Exists(doc)
                    /\ getDomain(doc["_class"]) = getDomain(target)
                    /\ r \in values
       IN (IF joins THEN <<stripHash(doc)>> ELSE <<>>) \o JoinedById(values, target, ids \ {r})

\* as: fullKey.split('.').join('') + '_lookup' of the nested step.
NestedKey(lookup) == lookup.key \o "_lookup" \o lookup.nested[1].key \o "_lookup"

\* The $lookup steps of getLookups applied to d: a step for a target of a
\* backend domain, none for a target of the model; then the same for the
\* nested lookup of a chained one, its local field under the parent's array.
WithLookupSteps(d, lookup) ==
  LET first == IF lookup.kind # "none" /\ getDomain(lookup.target) # DOMAIN_MODEL
               THEN SetKey(d, lookup.key \o "_lookup", Joined(d, lookup, RelatedIds))
               ELSE d
  IN IF lookup.nested # <<>> /\ getDomain(lookup.nested[1].target) # DOMAIN_MODEL
     THEN SetKey(first, NestedKey(lookup),
                 JoinedById(NestedValues(first, lookup), lookup.nested[1].target, RelatedIds))
     ELSE first

\* modelDb.findAll(_class, { [key]: value }); a reference is kept as the
\* list of the identifiers it holds, a single one for a plain reference.
RECURSIVE modelDbFindAll(_, _, _, _)
modelDbFindAll(class, key, value, ids) ==
  IF ids = {} THEN <<>>
  ELSE LET r == CHOOSE x \in ids : \A y \in ids : x <= y
           doc == related[r]
           matches ==
             /\ Exists(doc)
             /\ getDomain(doc["_class"]) = DOMAIN_MODEL
             /\ Includes(getDescendants(class), doc["_class"])
             /\ IF key = "_id" THEN value = <<r>>
                ELSE Has(doc, key) /\ <<doc[key]>> = value
       IN (IF matches THEN <<doc>> ELSE <<>>) \o modelDbFindAll(class, key, value, ids \ {r})

\* A value under $lookup: one object, a list, or undefined.
LookupValue(kind, docs) == [kind |-> kind, docs |-> docs]

\* fillLookup for a target of a backend domain: what it writes under
\* $lookup from the joined array object[fullKey].
fillLookup(d, lookup) ==
  LET fullKey == lookup.key \o "_lookup"
  IN IF Has(d, fullKey) /\ Len(d[fullKey]) = 1
     THEN lookup.key :> LookupValue("object", d[fullKey])
     ELSE IF Has(d, fullKey) /\ Len(d[fullKey]) > 1
     THEN lookup.key :> LookupValue("list", d[fullKey])
     ELSE EmptyObj

\* fillLookup for a target of the model: the first document found, or
\* undefined, is assigned to the key.
fillLookupModel(d, lookup) ==
  LET arr == modelDbFindAll(lookup.target, "_id",
                            IF Has(d, lookup.key) THEN d[lookup.key] ELSE <<>>, RelatedIds)
  IN lookup.key :> (IF arr = <<>> THEN LookupValue("undefined", <<>>)
                    ELSE LookupValue("object", <<arr[1]>>))

\* fillReverseLookup: the joined array, or the documents of the model that
\* refer to d, is assigned to the key.
fillReverseLookup(d, lookup) ==
  LET fullKey == lookup.key \o "_lookup"
  IN IF getDomain(lookup.target) # DOMAIN_MODEL
     THEN lookup.key :> (IF Has(d, fullKey) THEN LookupValue("list", d[fullKey])
                         ELSE LookupValue("undefined", <<>>))
     ELSE lookup.key :> LookupValue("list",
                          modelDbFindAll(lookup.target, lookup.attr, <<d["_id"]>>, RelatedIds))

\* fillLookup for the nested lookup n of a chained one: what it writes
\* under targetObject.$lookup, read from object[fullKey] for a backend
\* target and from the model by targetObject[n.key] otherwise.
fillNested(object, n, fullKey, targetObject) ==
  IF getDomain(n.target) # DOMAIN_MODEL
  THEN IF Has(object, fullKey) /\ Len(object[fullKey]) = 1
       THEN n.key :> LookupValue("object", object[fullKey])
       ELSE IF Has(object, fullKey) /\ Len(object[fullKey]) > 1
       THEN n.key :> LookupValue("list", object[fullKey])
       ELSE EmptyObj
  ELSE LET arr == modelDbFindAll(n.target, "_id",
                                 IF Has(targetObject, n.key) THEN targetObject[n.key]
                                 ELSE <<>>, RelatedIds)
       IN n.key :> (IF arr = <<>> THEN LookupValue("undefined", <<>>)
                    ELSE LookupValue("object", <<arr[1]>>))

\* The recursive call fillLookupValue(ctx, _class, nested, object, fullKey,
\* targetObject.$lookup[key]) on the $lookup object `value` of the row:
\* targetObject is parentObject ?? object, so the row itself when the
\* parent key resolved to nothing.
fillChained(d, lookup, value) ==
  LET n == lookup.nested[1]
      fullKey == NestedKey(lookup)
      parent == IF Has(value, lookup.key) THEN value[lookup.key]
                ELSE LookupValue("undefined", <<>>)
  IN CASE parent.kind = "object" ->
            lookup.key :> LookupValue("object",
              <<SetKey(parent.docs[1], "$lookup", fillNested(d, n, fullKey, parent.docs[1]))>>)
       [] parent.kind = "list" ->
            lookup.key :> (("$lookup" :> fillNested(d, n, fullKey, EmptyObj)) @@ parent)
       [] OTHER -> fillNested(d, n, fullKey, d) @@ value

\* The keys clearExtraLookups deletes from a row.
ExtraLookups(d) ==
  {k \in DOMAIN d : \E l \in {Len(k)} : l >= 7 /\ SubSeq(k, l - 6, l) = "_lookup"}

\* fillLookupValue and clearExtraLookups on one row of the pipeline.
fillLookupValue(d, lookup) ==
  IF lookup.kind = "none" THEN d
  ELSE LET value ==
             IF lookup.kind = "reverse" THEN fillReverseLookup(d, lookup)
             ELSE IF getDomain(lookup.target) # DOMAIN_MODEL THEN fillLookup(d, lookup)
             ELSE fillLookupModel(d, lookup)
           filled == IF lookup.kind = "forward" /\ lookup.nested # <<>>
                     THEN fillChained(d, lookup, value)
                     ELSE value
       IN SetKey(Restrict(d, (DOMAIN d) \ ExtraLookups(d)), "$lookup", filled)

\* getLookups returns a step for every lookup, chained ones included, whose
\* target lives in a backend domain.
HasSteps(lookup) ==
  /\ lookup.kind # "none"
  /\ \/ getDomain(lookup.target) # DOMAIN_MODEL
     \/ lookup.nested # <<>> /\ getDomain(lookup.nested[1].target) # DOMAIN_MODEL

\* The pipeline findWithPipeline builds, as the list of its stages; the
\* $lookup steps are pushed together and stand as one stage, $addFields of
\* a sort belongs to its $sort.
Pipeline(query, options) ==
  LET slowPipeline == isLookupQuery(query) \/ isLookupSort(options.sort)
      steps == IF HasSteps(options.lookup) THEN <<"$lookup">> ELSE <<>>
  IN (IF slowPipeline THEN steps ELSE <<>>)
       \o <<"$match">>
       \o (IF options.sort # <<>> THEN <<"$sort">> ELSE <<>>)
       \o (IF options.limit > 0 THEN <<"$limit">> ELSE <<>>)
       \o (IF ~slowPipeline THEN steps ELSE <<>>)
       \o <<"$project">>

\* translateQuery: the class constraint, and every field predicate under
\* its translated key, split at its dots.
Filter(clazz, query) ==
  [class |-> translateQuery(clazz, query),
   fields |-> [i \in 1..Len(QueryFields(query)) |->
                 [path |-> SplitDots(translateKey(QueryFields(query)[i].key)),
                  value |-> QueryFields(query)[i].value]]]

\* The filter on one document.
FilterMatches(d, filter) ==
  /\ QueryMatches(d, filter.class)
  /\ \A i \in 1..Len(filter.fields) :
       FieldMatches(d, filter.fields[i].path, filter.fields[i].value)

\* One stage of the aggregation on the documents s that reach it, giving
\* the lists the backend may hand on: a $sort leaves documents that
\* compare equal in any order.
\* The compare vectors of the documents of a list, in list order.
RECURSIVE SortVectors(_, _)
SortVectors(s, stages) ==
  IF s = <<>> THEN <<>> ELSE <<SortVector(Head(s), stages)>> \o SortVectors(Tail(s), stages)

Stage(op, s, filter, sort, options) ==
  CASE op = "$lookup" -> {[i \in 1..Len(s) |-> WithLookupSteps(s[i], options.lookup)]}
    [] op = "$match" -> {SelectSeq(s, LAMBDA d : FilterMatches(d, filter))}
    [] op = "$sort" ->
         {[j \in 1..Len(s) |-> s[t[j]]] :
            t \in Sorted(1..Len(s), SortVectors(s, sort))}
    [] op = "$limit" -> {SubSeq(s, 1, Min(options.limit, Len(s)))}
    [] OTHER -> {[i \in 1..Len(s) |-> Project(s[i], options.projection)]}

\* collection.aggregate(pipeline) on the lists S.
RECURSIVE aggregate(_, _, _, _, _)
aggregate(pipeline, S, filter, sort, options) ==
  IF pipeline = <<>> THEN S
  ELSE aggregate(Tail(pipeline),
                 UNION {Stage(Head(pipeline), s, filter, sort, options) : s \in S},
                 filter, sort, options)

\* The documents of the collection in the orders a scan may deliver them.
Scan ==
  LET stored == {x \in DOMAIN qcoll : Exists(qcoll[x])}
  IN {[i \in 1..Len(s) |-> qcoll[s[i]]] : s \in Sorted(stored, [x \in stored |-> <<>>])}

\* findWithPipeline run with the given pipeline: the aggregation, then
\* fillLookupValue and clearExtraLookups on every row, then stripHash.
findWithPipeline(pipeline, clazz, query, options) ==
  {[i \in 1..Len(s) |-> stripHash(fillLookupValue(s[i], options.lookup))] :
     s \in aggregate(pipeline, Scan, Filter(clazz, query),
                     fillSortPipeline(options.sort), options)}

\* What findAll(clazz, query, options) may return: the rows of
\* findWithPipeline, of the find-one path or of the cursor path.
findAllRows(clazz, query, options) ==
  LET filter == Filter(clazz, query)
      matched == {x \in DOMAIN qcoll : Exists(qcoll[x]) /\ FilterMatches(qcoll[x], filter)}
      keys == [x \in matched |-> collectSort(qcoll[x], options.sort)]
      limited(s) == IF options.defined /\ options.limit > 0
                    THEN SubSeq(s, 1, Min(options.limit, Len(s)))
                    ELSE s
      row(d) ==
        IF options.defined /\ options.limit = 1
        THEN Project(d, options.projection)
        ELSE stripHash(Project(d, options.projection))
  IN IF UsesPipeline(options)
     THEN findWithPipeline(Pipeline(query, options), clazz, query, options)
     ELSE {[i \in 1..Len(limited(s)) |-> row(qcoll[limited(s)[i]])] : s \in Sorted(matched, keys)}

\* findAll(_class, query, options): translateQuery, the backend query, the
\* lookups filled in and the hash stripped.
findAll(clazz, query, options) ==
  /\ qpc = "idle"
  /\ request' = [clazz |-> clazz, query |-> query, options |-> options]
  /\ mongoQuery' = translateQuery(clazz, query)
  /\ IF UsesPipeline(options) /\ InvalidPipeline(fillSortPipeline(options.sort))
     THEN /\ rows' = <<>>
          /\ qpc' = "failed"
     ELSE /\ rows' \in findAllRows(clazz, query, options)
          /\ qpc' = "done"
  /\ found' = {rows'[i]["_id"] : i \in 1..Len(rows')}
  /\ UNCHANGED <<qcoll, related, notQuery>>

\* findAll(_class, query) without options.
FindAll ==
  \E c \in {"Doc", "C", "D1", "E", "M"} : \E q \in ClassConstraints :
    findAll(c, q, NoOptions)

\* No tx call is open and the domain tx writes to is empty.
TxIdle ==
  /\ db = [x \in Ids |-> NoDoc]
  /\ pc = "idle"
  /\ txes = <<>>
  /\ bulk = EmptyBulk
  /\ pending = {}
  /\ writeErr = FALSE
  /\ result = <<>>
  /\ issued = [ph \in {"insert", "update", "bulk", "find", "raw"} |-> 0]
  /\ lastOp = [x \in Ids |-> "none"]
  /\ rawLog = <<>>
  /\ db0 = db
  /\ inOrder = TRUE
  /\ error = "none"

\* The domain holds documents of C, D1, D2 and E, and documents created
\* with the mixin M as their class; any of them may carry M's namespace.
QueryInit ==
  /\ IdxIdle
  /\ PlaceIdle
  /\ RevIdle
  /\ TxIdle
  /\ UpdIdle
  /\ GateIdle
  /\ IterIdle
  /\ qcoll \in {c \in [QueryIds -> UNION {QueryDocs(x) : x \in QueryIds}] :
                  \A x \in QueryIds : c[x] \in QueryDocs(x)}
  /\ request = NoRequest
  /\ mongoQuery = [_class |-> Undefined, exists |-> ""]
  /\ found = {}
  /\ qpc = "idle"
  /\ related = [r \in RelatedIds |-> NoDoc]
  /\ rows = <<>>

QueryNext == FindAll

SpecQuery == QueryInit /\ [][QueryNext]_vars

\* ------------------------------------------------ findAll with a lookup
\* { lookup: { ref: target } }
Forward(target) ==
  [kind |-> "forward", key |-> "ref", target |-> target, attr |-> "_id", nested |-> <<>>]

\* { lookup: { _id: { children: target } } }, the attribute defaulting to
\* attachedTo.
Reverse(target) ==
  [kind |-> "reverse", key |-> "children", target |-> target, attr |-> "attachedTo",
   nested |-> <<>>]

\* The calls with a lookup: to a target of a backend domain or of the
\* model, without a projection or with the projection { title: 1 }.
LookupOptions ==
  {FindOptions(<<>>, l, p, 0) :
     l \in {Forward("T"), Forward("TM"), Reverse("T"), Reverse("TM")},
     p \in {NoProjection, [kind |-> "include", keys |-> {"title"}]}}

\* A document of C: without a reference, referring to the related document
\* 1, or holding the references 1 and 2.
LookupDocs(x) ==
  LET d == ("_id" :> x @@ "_class" :> "C" @@ "title" :> "t")
  IN {NoDoc, d, d @@ ("ref" :> <<1>>), d @@ ("ref" :> <<1, 2>>)}

\* A related document of class c attached to the document a; a document of
\* a backend domain carries hash metadata.
RelatedDoc(r, c, a) ==
  IF getDomain(c) = DOMAIN_MODEL
  THEN ("_id" :> r @@ "_class" :> c @@ "attachedTo" :> a)
  ELSE ("_id" :> r @@ "_class" :> c @@ "attachedTo" :> a @@ "%hash%" :> HASHED)

RelatedDocs(r) ==
  {NoDoc, RelatedDoc(r, "T", 1), RelatedDoc(r, "TD", 1), RelatedDoc(r, "U", 1),
   RelatedDoc(r, "T", 2), RelatedDoc(r, "TM", 1)}

FindAllLookup == \E o \in LookupOptions : findAll("C", Undefined, o)

LookupInit ==
  /\ IdxIdle
  /\ PlaceIdle
  /\ RevIdle
  /\ TxIdle
  /\ UpdIdle
  /\ GateIdle
  /\ IterIdle
  /\ qcoll \in {c \in [QueryIds -> UNION {LookupDocs(x) : x \in QueryIds}] :
                  \A x \in QueryIds : c[x] \in LookupDocs(x)}
  /\ related \in {c \in [RelatedIds -> UNION {RelatedDocs(r) : r \in RelatedIds}] :
                    \A r \in RelatedIds : c[r] \in RelatedDocs(r)}
  /\ request = NoRequest
  /\ mongoQuery = [_class |-> Undefined, exists |-> ""]
  /\ found = {}
  /\ qpc = "idle"
  /\ rows = <<>>

LookupNext == FindAllLookup

SpecLookup == LookupInit /\ [][LookupNext]_vars

\* ---------------------------------------- findAll with a chained lookup
\* { lookup: { ref: [a, { b: b }] } }
Chained(a, b) ==
  [kind |-> "forward", key |-> "ref", target |-> a, attr |-> "_id",
   nested |-> <<[kind |-> "forward", key |-> "b", target |-> b, attr |-> "_id",
                 nested |-> <<>>]>>]

ChainedOptions ==
  {FindOptions(<<>>, Chained(a, b), NoProjection, 0) : a \in {"T", "TM"}, b \in {"U", "TM"}}

\* A document of C with or without the reference ref to the related
\* document 1 and with or without an attribute b of its own.
ChainDocs(x) ==
  LET d == ("_id" :> x @@ "_class" :> "C")
  IN {NoDoc, d, d @@ ("ref" :> <<1>>), d @@ ("b" :> <<2>>),
      d @@ ("ref" :> <<1>>) @@ ("b" :> <<2>>)}

\* The related document 1 is the target of ref, of a backend domain or of
\* the model, and refers to document 2 or to nothing; document 2 is the
\* target of b.
ChainRelated(r) ==
  IF r = 1
  THEN {NoDoc,
        ("_id" :> 1 @@ "_class" :> "T" @@ "%hash%" :> HASHED),
        ("_id" :> 1 @@ "_class" :> "T" @@ "b" :> <<2>> @@ "%hash%" :> HASHED),
        ("_id" :> 1 @@ "_class" :> "TM" @@ "b" :> <<2>>)}
  ELSE {NoDoc,
        ("_id" :> r @@ "_class" :> "U" @@ "%hash%" :> HASHED),
        ("_id" :> r @@ "_class" :> "TM")}

FindAllChained == \E o \in ChainedOptions : findAll("C", Undefined, o)

ChainInit ==
  /\ IdxIdle
  /\ PlaceIdle
  /\ RevIdle
  /\ TxIdle
  /\ UpdIdle
  /\ GateIdle
  /\ IterIdle
  /\ qcoll \in {c \in [QueryIds -> UNION {ChainDocs(x) : x \in QueryIds}] :
                  \A x \in QueryIds : c[x] \in ChainDocs(x)}
  /\ related \in {c \in [RelatedIds -> UNION {ChainRelated(r) : r \in RelatedIds}] :
                    \A r \in RelatedIds : c[r] \in ChainRelated(r)}
  /\ request = NoRequest
  /\ mongoQuery = [_class |-> Undefined, exists |-> ""]
  /\ found = {}
  /\ qpc = "idle"
  /\ rows = <<>>

ChainNext == FindAllChained

SpecChain == ChainInit /\ [][ChainNext]_vars

\* -------------------------------------------------- findAll with a sort
SortBy(key, order) == [key |-> key, order |-> order]

\* A document of C whose priority is a declared value, a value the enum
\* does not declare, or unset.
EnumDocs(x) ==
  LET d == ("_id" :> x @@ "_class" :> "C")
  IN {d} \cup {d @@ ("priority" :> v) : v \in {"LOW", "MEDIUM", "HIGH", "URGENT"}}

FindAllEnumSorted ==
  \E order \in {"Ascending", "Descending"} :
    findAll("C", Undefined, FindOptions(<<SortBy("priority", order)>>, NoLookup, NoProjection, 0))

EnumSortInit ==
  /\ IdxIdle
  /\ PlaceIdle
  /\ RevIdle
  /\ TxIdle
  /\ UpdIdle
  /\ GateIdle
  /\ IterIdle
  /\ qcoll \in {c \in [SortIds -> UNION {EnumDocs(x) : x \in SortIds}] :
                  \A x \in SortIds : c[x] \in EnumDocs(x)}
  /\ related = [r \in RelatedIds |-> NoDoc]
  /\ request = NoRequest
  /\ mongoQuery = [_class |-> Undefined, exists |-> ""]
  /\ found = {}
  /\ qpc = "idle"
  /\ rows = <<>>

EnumSortNext == FindAllEnumSorted

SpecEnumSort == EnumSortInit /\ [][EnumSortNext]_vars

\* A document of C whose dueDate is a date, null or missing.
DateDocs(x) ==
  LET d == ("_id" :> x @@ "_class" :> "C")
  IN {d, d @@ ("dueDate" :> NULL)}
       \cup {d @@ ("dueDate" :> DateValues[i]) : i \in 1..Len(DateValues)}

\* The sorts on dueDate: alone, which findAll runs on the cursor path, and
\* with a reverse lookup or a second sort key that is an enum, which it
\* runs as a pipeline.
DateSortOptions ==
  {FindOptions(<<SortBy("dueDate", order)>>, l, NoProjection, 0) :
     order \in {"Ascending", "Descending"}, l \in {NoLookup, Reverse("T")}}
  \cup
  {FindOptions(<<SortBy("dueDate", order), SortBy("priority", "Ascending")>>,
               NoLookup, NoProjection, 0) : order \in {"Ascending", "Descending"}}

FindAllDateSorted == \E o \in DateSortOptions : findAll("C", Undefined, o)

DateSortInit ==
  /\ IdxIdle
  /\ PlaceIdle
  /\ RevIdle
  /\ TxIdle
  /\ UpdIdle
  /\ GateIdle
  /\ IterIdle
  /\ qcoll \in {c \in [SortIds -> UNION {DateDocs(x) : x \in SortIds}] :
                  \A x \in SortIds : c[x] \in DateDocs(x)}
  /\ related = [r \in RelatedIds |-> NoDoc]
  /\ request = NoRequest
  /\ mongoQuery = [_class |-> Undefined, exists |-> ""]
  /\ found = {}
  /\ qpc = "idle"
  /\ rows = <<>>

DateSortNext == FindAllDateSorted

SpecDateSort == DateSortInit /\ [][DateSortNext]_vars

\* -------------------------------------- findAll sorted by a rule set
\* A case { query, index }: the selector is a literal or { $in }, { $nin },
\* { $ne }; values holds the literal, the $ne value or the $in / $nin list.
Case(op, values, index) == [op |-> op, values |-> values, index |-> index]

\* { [key]: { order, cases, default } }
SortByRules(key, order, cases, hasDefault, default) ==
  [key |-> key,
   rules |-> [order |-> order, cases |-> cases, hasDefault |-> hasDefault,
              default |-> default]]

\* The case lists of the rule sets: literals; overlapping $ne and literal;
\* $in; $nin and a literal.
RuleCases ==
  {<<Case("literal", <<"y">>, 0), Case("literal", <<"x">>, 1)>>,
   <<Case("$ne", <<"x">>, 1), Case("literal", <<"y">>, 0)>>,
   <<Case("$in", <<"x", "y">>, 0)>>,
   <<Case("$nin", <<"x">>, 0), Case("literal", <<"x">>, 1)>>}

\* A document of C whose status is x, y, z or unset.
RuleDocs(x) ==
  LET d == ("_id" :> x @@ "_class" :> "C")
  IN {d} \cup {d @@ ("status" :> v) : v \in {"x", "y", "z"}}

FindAllRuleSorted ==
  \E order \in {"Ascending", "Descending"} : \E cases \in RuleCases :
  \E hasDefault \in BOOLEAN :
    findAll("C", Undefined,
            FindOptions(<<SortByRules("status", order, cases, hasDefault, 5)>>, NoLookup,
                        NoProjection, 0))

RuleSortInit ==
  /\ IdxIdle
  /\ PlaceIdle
  /\ RevIdle
  /\ TxIdle
  /\ UpdIdle
  /\ GateIdle
  /\ IterIdle
  /\ qcoll \in {c \in [SortIds -> UNION {RuleDocs(x) : x \in SortIds}] :
                  \A x \in SortIds : c[x] \in RuleDocs(x)}
  /\ related = [r \in RelatedIds |-> NoDoc]
  /\ request = NoRequest
  /\ mongoQuery = [_class |-> Undefined, exists |-> ""]
  /\ found = {}
  /\ qpc = "idle"
  /\ rows = <<>>

RuleSortNext == FindAllRuleSorted

SpecRuleSort == RuleSortInit /\ [][RuleSortNext]_vars

\* ------------------------------------- findAll with a projection, load
\* A document of C that the hash iterator has not visited (no %hash%), whose
\* hash was reset to null, or whose hash is stored.
HashedDocs(x) ==
  LET d == ("_id" :> x @@ "_class" :> "C" @@ "title" :> "t")
  IN {NoDoc, d, d @@ ("%hash%" :> NULL), d @@ ("%hash%" :> HASHED)}

\* No projection, the inclusions { title: 1 } and { title: 1, '%hash%': 1 }
\* and the exclusion { title: 0 }; without a limit or with limit 1; without
\* a lookup or with a reverse lookup, which selects the pipeline.
ProjectOptions ==
  {FindOptions(<<>>, l, p, n) :
     l \in {NoLookup, Reverse("T")},
     p \in {NoProjection, [kind |-> "include", keys |-> {"title"}],
            [kind |-> "include", keys |-> {"title", "%hash%"}],
            [kind |-> "exclude", keys |-> {"title"}]},
     n \in {0, 1}}

FindAllProjected == \E o \in ProjectOptions \cup {NoOptions} : findAll("C", Undefined, o)

\* load(domain, docs): find({ _id: { $in: docs } }), toArray, stripHash.
Load ==
  /\ qpc = "idle"
  /\ \E docs \in SUBSET QueryIds :
       LET stored == {x \in docs : Exists(qcoll[x])}
       IN /\ rows' \in {[i \in 1..Len(s) |-> stripHash(qcoll[s[i]])] :
                          s \in Sorted(stored, [x \in stored |-> <<>>])}
          /\ found' = stored
  /\ qpc' = "loaded"
  /\ UNCHANGED <<qcoll, request, mongoQuery, related, notQuery>>

ProjectInit ==
  /\ IdxIdle
  /\ PlaceIdle
  /\ RevIdle
  /\ TxIdle
  /\ UpdIdle
  /\ GateIdle
  /\ IterIdle
  /\ qcoll \in {c \in [QueryIds -> UNION {HashedDocs(x) : x \in QueryIds}] :
                  \A x \in QueryIds : c[x] \in HashedDocs(x)}
  /\ related = [r \in RelatedIds |-> NoDoc]
  /\ request = NoRequest
  /\ mongoQuery = [_class |-> Undefined, exists |-> ""]
  /\ found = {}
  /\ qpc = "idle"
  /\ rows = <<>>

ProjectNext == FindAllProjected \/ Load

SpecProject == ProjectInit /\ [][ProjectNext]_vars

\* ------------------- findAll with a lookup, field predicates and a sort
\* A query without class constraint and with the field predicates fields.
WithFields(fields) == Undefined @@ [fields |-> fields]

\* No predicate, { title: 'x' } and { '$lookup.ref.name': 'x' }.
PipelineQueries ==
  {Undefined,
   WithFields(<<[key |-> "title", value |-> "x"]>>),
   WithFields(<<[key |-> "$lookup.ref.name", value |-> "x"]>>)}

\* The forward lookup { ref: T }; no sort, a sort on title or on
\* $lookup.ref.name; no limit or limit 1.
PipelineOptions ==
  {FindOptions(srt, Forward("T"), NoProjection, n) :
     srt \in {<<>>, <<SortBy("title", "Ascending")>>,
              <<SortBy("$lookup.ref.name", "Ascending")>>,
              <<SortBy("$lookup.ref.name", "Descending")>>},
     n \in {0, 1}}

\* A document of C with a title and at most one reference.
PipelineDocs(x) ==
  LET d == ("_id" :> x @@ "_class" :> "C")
  IN {NoDoc, d @@ ("title" :> "x"), d @@ ("title" :> "x") @@ ("ref" :> <<1>>),
      d @@ ("title" :> "y") @@ ("ref" :> <<2>>)}

\* A document of T with a name.
NamedDocs(r) ==
  {NoDoc} \cup {("_id" :> r @@ "_class" :> "T" @@ "name" :> n @@ "%hash%" :> HASHED) :
                  n \in {"x", "y"}}

FindAllPipeline ==
  \E q \in PipelineQueries : \E o \in PipelineOptions : findAll("C", q, o)

PipelineInit ==
  /\ IdxIdle
  /\ PlaceIdle
  /\ RevIdle
  /\ TxIdle
  /\ UpdIdle
  /\ GateIdle
  /\ IterIdle
  /\ qcoll \in {c \in [QueryIds -> UNION {PipelineDocs(x) : x \in QueryIds}] :
                  \A x \in QueryIds : c[x] \in PipelineDocs(x)}
  /\ related \in {c \in [RelatedIds -> UNION {NamedDocs(r) : r \in RelatedIds}] :
                    \A r \in RelatedIds : c[r] \in NamedDocs(r)}
  /\ request = NoRequest
  /\ mongoQuery = [_class |-> Undefined, exists |-> ""]
  /\ found = {}
  /\ qpc = "idle"
  /\ rows = <<>>

PipelineNext == FindAllPipeline

SpecPipeline == PipelineInit /\ [][PipelineNext]_vars

\* ------------------------------------------- tx over several domains
\* A document transaction with the class of the document it is about.
OfClass(tx, c) == tx @@ [objectClass |-> c]

\* TxCollectionCUD about the owner x of class c, wrapping inner.
Attached(x, c, inner) ==
  [_class |-> "TxCollectionCUD", objectId |-> x, objectClass |-> c,
   collection |-> "comments", tx |-> inner]

\* Transactions on documents of C, whose domain is d1, and of T, whose
\* domain is d2, bare and wrapped for an owner of either class.
PlacedShapes ==
  LET createC == OfClass([_class |-> "TxCreateDoc", objectId |-> 3, attributes |-> [f |-> 0]], "C")
      createT == OfClass([_class |-> "TxCreateDoc", objectId |-> 2, attributes |-> [f |-> 0]], "T")
      push(r) == OfClass([_class |-> "TxUpdateDoc", objectId |-> 2,
                          operations |-> "$push" :> [arr |-> ("$each" :> <<"a">>)],
                          retrieve |-> r], "T")
      flat == OfClass([_class |-> "TxUpdateDoc", objectId |-> 2, operations |-> [f |-> 1],
                       retrieve |-> FALSE], "T")
      remove == OfClass([_class |-> "TxRemoveDoc", objectId |-> 1], "C")
      mixin == OfClass([_class |-> "TxMixin", objectId |-> 1, mixin |-> "M",
                        attributes |-> [k |-> 1]], "C")
  IN {createC, createT, push(TRUE), push(FALSE), remove, mixin,
      Attached(1, "C", createT), Attached(4, "T", createT), Attached(1, "C", createC),
      Attached(1, "C", push(TRUE)), Attached(1, "C", flat),
      [_class |-> "TxApplyIf", objectId |-> 1]}

\* The key groupByArray files a record under: h.findDomain(it.objectClass)
\* of a document transaction, undefined for any other record.
GroupKey(tx) == IF isExtendsCUD(tx._class) THEN getDomain(tx.objectClass) ELSE undefined

\* The backend write one record of the group of `domain` compiles to, with
\* the collection it is issued on: the operations of the bulk go to
\* db.collection(domain), the findOneAndUpdate of an operator update with
\* retrieve to collection(getDomain(tx.objectClass)).
RECURSIVE WriteOf(_, _)
WriteOf(domain, tx) ==
  CASE tx._class = "TxCreateDoc" ->
         {[op |-> "insert", domain |-> domain, id |-> tx.objectId, class |-> tx.objectClass]}
    [] tx._class = "TxCollectionCUD" -> WriteOf(domain, tx.tx)
    [] tx._class = "TxUpdateDoc" ->
         IF isOperator(tx.operations) /\ FirstKey(tx.operations) \notin {"$move", "$update"}
            /\ tx.retrieve
         THEN {[op |-> "findOneAndUpdate", domain |-> getDomain(tx.objectClass),
                id |-> tx.objectId, class |-> tx.objectClass]}
         ELSE {[op |-> "update", domain |-> domain, id |-> tx.objectId,
                class |-> tx.objectClass]}
    [] tx._class = "TxRemoveDoc" ->
         {[op |-> "delete", domain |-> domain, id |-> tx.objectId, class |-> tx.objectClass]}
    [] tx._class = "TxMixin" ->
         {[op |-> "update", domain |-> domain, id |-> tx.objectId, class |-> tx.objectClass]}
    [] OTHER -> {}

\* MongoAdapter.tx with every backend call fulfilled: the batch is grouped
\* by domain and each group but the undefined one is compiled and written.
TxDomains ==
  /\ pc = "idle"
  /\ \E n \in 0..MaxBatch : \E b \in [1..n -> PlacedShapes] :
       /\ txes' = [i \in 1..n |-> Stamp(b[i], i)]
       /\ writes' = UNION {WriteOf(GroupKey(b[i]), b[i]) :
                             i \in {j \in 1..n : GroupKey(b[j]) # undefined}}
  /\ UNCHANGED <<db, pc, bulk, pending, writeErr, result, issued, lastOp, rawLog, db0,
                 inOrder, error, notPlace>>

PlaceInit ==
  /\ IdxIdle
  /\ PlaceIdle
  /\ RevIdle
  /\ TxIdle
  /\ UpdIdle
  /\ GateIdle
  /\ IterIdle
  /\ QueryIdle

PlaceNext == TxDomains

SpecPlace == PlaceInit /\ [][PlaceNext]_vars

\* ------------------------------------- createIndexes, removeOldIndex
\* Longest list config.indexes handed to createIndexes.
MaxIndexes == 2

\* A value of config.indexes: a string (the field name), or an object with
\* keys and optionally filter and sparse.  n is the position in IndexNames
\* of the index the backend creates for it.
IndexValues ==
  {[n |-> 1, isString |-> TRUE, filter |-> FALSE, sparse |-> FALSE],
   [n |-> 2, isString |-> FALSE, filter |-> TRUE, sparse |-> TRUE],
   [n |-> 2, isString |-> FALSE, filter |-> FALSE, sparse |-> FALSE],
   [n |-> 3, isString |-> FALSE, filter |-> FALSE, sparse |-> TRUE]}

IndexConfigs == UNION {[1..k -> IndexValues] : k \in 0..MaxIndexes}

\* The index collection.createIndex(value) or createIndex(value.keys, opt)
\* creates: opt.partialFilterExpression when value.filter is defined, else
\* opt.sparse when value.sparse is true.
CreatedIndex(value) ==
  IF value.isString THEN "plain"
  ELSE IF value.filter THEN "partial"
  ELSE IF value.sparse THEN "sparse"
  ELSE "plain"

\* Mutant: the failure of one createIndex is thrown on to the caller.
CreateFailureRethrown(err) == err

\* catch (err) { console.error('failed to create index', ...) } inside the
\* loop body: what the call is rejected with after a createIndex failed.
CreateFailure(err) == "none"

\* catch (err) { console.error(err) } around the body of removeOldIndex.
RemoveFailure(err) == "none"

\* createIndexes(domain, config) is called.
CreateIndexes ==
  /\ idxpc = "idle"
  /\ \E config \in IndexConfigs :
       idxCall' = [op |-> "createIndexes", list |-> config, del |-> {}, keep |-> {}]
  /\ idxPos' = 1
  /\ attempted' = <<>>
  /\ logged' = 0
  /\ idxError' = "none"
  /\ idxpc' = "create"
  /\ UNCHANGED <<indexes, notIdx>>

\* One iteration of the loop of createIndexes: the backend creates the
\* index or rejects the call, as it chooses.
CreateIndex ==
  /\ idxpc = "create"
  /\ idxPos <= Len(idxCall.list)
  /\ LET value == idxCall.list[idxPos]
     IN /\ attempted' = Append(attempted, value.n)
        /\ \E ok \in BOOLEAN :
             IF ok
             THEN /\ indexes' = [indexes EXCEPT ![value.n] = CreatedIndex(value)]
                  /\ UNCHANGED <<logged, idxError>>
                  /\ idxPos' = idxPos + 1
                  /\ idxpc' = "create"
             ELSE /\ idxError' = CreateFailure("MongoServerError")
                  /\ logged' = IF idxError' = "none" THEN logged + 1 ELSE logged
                  /\ idxPos' = idxPos + 1
                  /\ idxpc' = IF idxError' = "none" THEN "create" ELSE "done"
                  /\ UNCHANGED indexes
  /\ UNCHANGED <<idxCall, notIdx>>

\* removeOldIndex(domain, deletePattern, keepPattern) is called; del and
\* keep are the positions of the names the patterns match.  indexes() lists
\* the existing indexes or rejects the call.
RemoveOldIndex ==
  /\ idxpc = "idle"
  /\ attempted' = <<>>
  /\ idxPos' = 1
  /\ \E del \in SUBSET (1..Len(IndexNames)) : \E keep \in SUBSET (1..Len(IndexNames)) :
     \E ok \in BOOLEAN :
       IF ok
       THEN /\ idxCall' = [op |-> "removeOldIndex",
                           list |-> SelectSeq([n \in 1..Len(IndexNames) |-> n],
                                              LAMBDA n : indexes[n] # "none"),
                           del |-> del, keep |-> keep]
            /\ logged' = 0
            /\ idxError' = "none"
            /\ idxpc' = "remove"
       ELSE /\ idxCall' = [op |-> "removeOldIndex", list |-> <<>>, del |-> del,
                           keep |-> keep]
            /\ idxError' = RemoveFailure("MongoServerError")
            /\ logged' = 1
            /\ idxpc' = "done"
  /\ UNCHANGED <<indexes, notIdx>>

\* deletePattern.some(test) && (sparse === true || !keepPattern.some(test))
Deletable(n) ==
  /\ n \in idxCall.del
  /\ (indexes[n] = "sparse" \/ n \notin idxCall.keep)

\* One iteration of the loop of removeOldIndex: an index that is not to be
\* deleted is passed over; dropIndex drops the index or rejects the call,
\* which ends the loop in the catch clause.
DropIndex ==
  /\ idxpc = "remove"
  /\ idxPos <= Len(idxCall.list)
  /\ LET n == idxCall.list[idxPos]
     IN IF ~Deletable(n)
        THEN /\ idxPos' = idxPos + 1
             /\ UNCHANGED <<indexes, attempted, logged, idxError, idxpc>>
        ELSE /\ attempted' = Append(attempted, n)
             /\ \E ok \in BOOLEAN :
                  IF ok
                  THEN /\ indexes' = [indexes EXCEPT ![n] = "none"]
                       /\ idxPos' = idxPos + 1
                       /\ UNCHANGED <<logged, idxError, idxpc>>
                  ELSE /\ idxError' = RemoveFailure("MongoServerError")
                       /\ logged' = logged + 1
                       /\ idxpc' = "done"
                       /\ UNCHANGED <<indexes, idxPos>>
  /\ UNCHANGED <<idxCall, notIdx>>

\* The loop has walked the whole list: the call returns.
IdxReturn ==
  /\ idxpc \in {"create", "remove"}
  /\ idxPos > Len(idxCall.list)
  /\ idxpc' = "done"
  /\ UNCHANGED <<indexes, idxCall, idxPos, attempted, logged, idxError, notIdx>>

\* The caller goes on to its next call.
IdxNextCall ==
  /\ idxpc = "done"
  /\ idxError = "none"
  /\ idxCall' = NoCall
  /\ idxPos' = 1
  /\ attempted' = <<>>
  /\ logged' = 0
  /\ idxpc' = "idle"
  /\ UNCHANGED <<indexes, idxError, notIdx>>

IdxInit ==
  /\ TxIdle
  /\ UpdIdle
  /\ GateIdle
  /\ IterIdle
  /\ QueryIdle
  /\ IdxIdle
  /\ PlaceIdle
  /\ RevIdle

IdxNext ==
  \/ CreateIndexes
  \/ CreateIndex
  \/ RemoveOldIndex
  \/ DropIndex
  \/ IdxReturn
  \/ IdxNextCall

SpecIndex == IdxInit /\ [][IdxNext]_vars

\* ------------------------------------------------------------- claims
\* The transaction the record at position i stands for: a collection
\* wrapper stands for the transaction it wraps.
Record(i) == IF txes[i]._class = "TxCollectionCUD" THEN txes[i].tx ELSE txes[i]

Targets(i, x) == Record(i).objectId = x

IsClass(i, c) == Record(i)._class = c

IsFlatUpdate(i) == IsClass(i, "TxUpdateDoc") /\ ~isOperator(Record(i).operations)

IsOperatorUpdate(i, o) ==
  /\ IsClass(i, "TxUpdateDoc")
  /\ isOperator(Record(i).operations)
  /\ FirstKey(Record(i).operations) = o

IsFlatMixin(i) == IsClass(i, "TxMixin") /\ ~isOperator(Record(i).attributes)

Batch == 1..Len(txes)

\* C1: once a tx call has returned, every document that a create or an
\* update transaction of the batch targets, and that is stored, has
\* %hash% = null, also when a hash had been stored before the call.
C1_HashNullAfterCreateOrUpdate ==
  pc = "done" =>
    \A x \in Ids :
      ( /\ \E i \in Batch :
             Targets(i, x) /\ (IsClass(i, "TxCreateDoc") \/ IsClass(i, "TxUpdateDoc"))
        /\ Exists(db[x]) )
      => db[x]["%hash%"] = NULL

C1_Witness ==
  /\ pc = "done"
  /\ Len(txes) = 1
  /\ IsOperatorUpdate(1, "$update")
  /\ Targets(1, 1)
  /\ db0[1]["%hash%"] = HASHED
  /\ db[1]["%hash%"] = NULL

\* C2: once a tx call has returned, a stored document whose hash had been
\* computed and whose only transaction in the batch is a mixin-apply has
\* %hash% = null.
C2_HashNullAfterMixin ==
  pc = "done" =>
    \A x \in Ids :
      ( /\ \E i \in Batch : Targets(i, x) /\ IsClass(i, "TxMixin")
        /\ \A i, j \in Batch : (Targets(i, x) /\ Targets(j, x)) => i = j
        /\ Exists(db0[x])
        /\ db0[x]["%hash%"] = HASHED
        /\ Exists(db[x]) )
      => db[x]["%hash%"] = NULL

\* The batch applied one transaction at a time: each record compiled alone
\* and its operations applied in the order they were compiled.
RECURSIVE InsertAll(_, _)
InsertAll(coll, docs) ==
  IF docs = <<>> THEN coll
  ELSE LET doc == Head(docs)
       IN InsertAll(IF Exists(coll[doc["_id"]]) THEN coll
                    ELSE [coll EXCEPT ![doc["_id"]] = doc],
                    Tail(docs))

RECURSIVE WriteAll(_, _)
WriteAll(coll, list) ==
  IF list = <<>> THEN coll
  ELSE WriteAll(ApplyWrite(coll, [Head(list) EXCEPT !.kind =
                                    IF @ = "deleteOne" THEN @ ELSE "updateOne"]),
                Tail(list))

ApplyAlone(coll, tx) ==
  LET b == Compile(EmptyBulk, DomainGroup(<<tx>>))
      sets == [i \in 1..Len(b.update) |->
                 UpdateOne([_id |-> b.update[i].id], "$set" :> b.update[i].set)]
  IN WriteAll(WriteAll(WriteAll(InsertAll(coll, b.add), sets), b.bulkOperations), b.raw)

RECURSIVE OneAtATime(_, _)
OneAtATime(coll, txs) ==
  IF txs = <<>> THEN coll
  ELSE OneAtATime(ApplyAlone(coll, Head(txs)), Tail(txs))

\* C3: when a tx call has returned, the stored state of every identifier
\* equals the state obtained by applying the batch's transactions one at a
\* time in batch order.  Stated for the calls in which the backend applied
\* every bulk write in list order, so that a difference is the compiler's.
C3_BatchEqualsOneAtATime ==
  (pc = "done" /\ inOrder) => \A x \in Ids : db[x] = OneAtATime(db0, txes)[x]

\* C4: when a tx call has returned and the batch held an update or a
\* mixin-apply of X followed later by a remove of X, the delete is the last
\* backend operation the call applied to X and X is not stored.  Stated
\* for the calls in which the backend applied every bulk write in list order.
C4_RemoveIsLast ==
  (pc = "done" /\ inOrder) =>
    \A x \in Ids :
      (\E i, j \in Batch :
         /\ i < j
         /\ Targets(i, x) /\ Targets(j, x)
         /\ IsClass(i, "TxUpdateDoc") \/ IsClass(i, "TxMixin")
         /\ IsClass(j, "TxRemoveDoc"))
      => (lastOp[x] = "deleteOne" /\ ~Exists(db[x]))

Occurrences(s, v) == Cardinality({i \in 1..Len(s) : s[i] = v})

\* C5: after a tx call whose batch is one update $move of value v to
\* position p, on an array that held v exactly once, the array holds the
\* same elements, v at index p, the others in their original order.
C5_MoveResult ==
  ( /\ pc = "done"
    /\ Len(txes) = 1
    /\ IsOperatorUpdate(1, "$move") )
  => LET x == Record(1).objectId
         desc == Record(1).operations["$move"]["arr"]
         v == desc["$value"]
         p == desc["$position"]
     IN ( /\ Exists(db0[x])
          /\ Occurrences(db0[x]["arr"], v) = 1
          /\ p < Len(db0[x]["arr"]) )
        => /\ Exists(db[x])
           /\ Len(db[x]["arr"]) = Len(db0[x]["arr"])
           /\ db[x]["arr"][p + 1] = v
           /\ Without(db[x]["arr"], v) = Without(db0[x]["arr"], v)

Max(S) == CHOOSE i \in S : \A j \in S : j <= i

\* The non-operator records of the batch that target x and are merged into
\* the per-identifier field-set map: flat updates, and non-operator
\* mixin-applies.
FlatUpdatesOn(x) == {i \in Batch : Targets(i, x) /\ IsFlatUpdate(i)}

FlatOn(x) == {i \in Batch : Targets(i, x) /\ (IsFlatUpdate(i) \/ IsFlatMixin(i))}

\* The fields record i sets and the value it gives each.
FieldsOf(i) ==
  IF IsFlatUpdate(i)
  THEN (DOMAIN Record(i).operations) \cup {"modifiedOn", "%hash%"}
  ELSE (DOMAIN translateMixinAttrs(Record(i).mixin, Record(i).attributes)) \cup {"modifiedOn"}

ValueOf(i, K) ==
  IF K = "modifiedOn" THEN Record(i).modifiedOn
  ELSE IF IsFlatUpdate(i)
       THEN (IF K = "%hash%" THEN NULL ELSE Record(i).operations[K])
       ELSE translateMixinAttrs(Record(i).mixin, Record(i).attributes)[K]

EntriesFor(x) == {j \in 1..Len(bulk.update) : bulk.update[j].id = x}

Compiled == pc # "idle" /\ error # "TypeError"

\* C6 (as amended): the flat updates and non-operator mixin-applies of a
\* batch that target X are compiled into exactly one entry for X, issued as
\* one updateOne; its field-set maps every field to the value of the last
\* such record that set it, modifiedOn being that of the last such record.
C6_OneMergedUpdate ==
  Compiled =>
    \A x \in Ids :
      /\ Cardinality(EntriesFor(x)) = (IF FlatOn(x) = {} THEN 0 ELSE 1)
      /\ FlatOn(x) # {} =>
           LET set == bulk.update[CHOOSE j \in EntriesFor(x) : TRUE].set
           IN /\ DOMAIN set = UNION {FieldsOf(i) : i \in FlatOn(x)}
              /\ \A K \in DOMAIN set :
                   set[K] = ValueOf(Max({i \in FlatOn(x) : K \in FieldsOf(i)}), K)
              /\ set["modifiedOn"] = Record(Max(FlatOn(x))).modifiedOn
      /\ pc = "done" => issued["update"] = Len(bulk.update)

C6_Witness ==
  /\ pc = "done"
  /\ \E i, j \in FlatUpdatesOn(1) :
       /\ i < j
       /\ "f" \in DOMAIN Record(i).operations
       /\ "f" \in DOMAIN Record(j).operations
       /\ Record(i).operations["f"] # Record(j).operations["f"]
       /\ db[1]["f"] = Record(j).operations["f"]
       /\ db[1]["modifiedOn"] = j
  /\ issued["update"] = 1

\* C6 (as claimed): the merged updateOne of X carries the modifiedOn of the
\* last flat update transaction of the batch that targets X.
C6_ModifiedOnOfLastFlatUpdate ==
  Compiled =>
    \A x \in Ids :
      FlatUpdatesOn(x) # {} =>
        /\ Cardinality(EntriesFor(x)) = 1
        /\ LET set == bulk.update[CHOOSE j \in EntriesFor(x) : TRUE].set
           IN /\ \A i \in FlatUpdatesOn(x) : \A K \in DOMAIN Record(i).operations :
                   set[K] = Record(Max({j \in FlatUpdatesOn(x) :
                                           K \in DOMAIN Record(j).operations})).operations[K]
              /\ set["modifiedOn"] = Record(Max(FlatUpdatesOn(x))).modifiedOn

EmptyMixinOn(x) ==
  \E i \in Batch : Targets(i, x) /\ IsFlatMixin(i) /\ DOMAIN Record(i).attributes = {}

\* C7: when a tx call has returned and the batch held a non-operator
\* mixin-apply with zero attributes for mixin M on X, the stored document X
\* carries the namespace M, whether or not it did before the call.
C7_EmptyMixinCreatesNamespace ==
  pc = "done" =>
    \A x \in Ids : (EmptyMixinOn(x) /\ Exists(db[x])) => Has(db[x], "M")

C7_Witness ==
  /\ pc = "done"
  /\ EmptyMixinOn(1)
  /\ Exists(db0[1])
  /\ ~Has(db0[1], "M")
  /\ Has(db[1], "M")
  /\ Has(db[1]["M"], "__mixin")

Rank(ph) ==
  CASE ph = "insert" -> 1
    [] ph = "update" -> 2
    [] ph = "bulk" -> 3
    [] ph = "find" -> 4
    [] ph = "raw" -> 5

Steps == {"insert", "update", "bulk", "find", "raw"}

\* C8: within the domain group the steps run in the order insert batch,
\* merged field-set updates, bulk-operation list, read-after-write fetch,
\* raw operations: no operation of a step is applied before every operation
\* of the steps before it was applied, and the raw operations run one by
\* one in batch order.
C8_StepOrder ==
  /\ \A p1, p2 \in Steps :
       (Rank(p1) < Rank(p2) /\ issued[p2] > 0) => issued[p1] = Work(bulk, p1)
  /\ \A k \in 1..Len(rawLog) : rawLog[k] = k
  /\ \A k, l \in 1..Len(bulk.raw) :
       k < l => bulk.raw[k].update["$set"]["modifiedOn"] < bulk.raw[l].update["$set"]["modifiedOn"]
  /\ pc = "done" => \A ph \in Steps : issued[ph] = Work(bulk, ph)

C8_Witness ==
  /\ pc = "done"
  /\ issued["update"] > 0
  /\ issued["find"] > 0
  /\ issued["raw"] > 0

\* C9: when a bulk write of a tx call fails, every operation of the failed
\* batch is submitted once more, alone, and the call fails with a
\* PartialBatchFailure.
C9_RetryAtSizeOne ==
  (pc = "failed" /\ error # "TypeError") =>
    /\ issued["insert"] = 2 * Len(bulk.add)
    /\ error = "PartialBatchFailure"

RejectedIds == {i \in 1..Len(operations) : Rejected(operations[i].upd)}

\* C10: when update returns and the backend rejected exactly one operation
\* of the map, every other operation of the map is applied to storage: the
\* fields it sets are stored and %hash% is null.
C10_OthersApplied ==
  (upc = "done" /\ Cardinality(RejectedIds) = 1) =>
    \A i \in (1..Len(operations)) \ RejectedIds :
      LET e == operations[i]
      IN /\ db[e.id]["%hash%"] = NULL
         /\ \A K \in DOMAIN SetOf(e.upd) : db[e.id][K] = e.upd[K]

C10_Witness ==
  /\ upc = "done"
  /\ Cardinality(RejectedIds) = 1
  /\ Len(operations) > ChunkSize + 1
  /\ \A i \in RejectedIds : i > ChunkSize
  /\ \E i \in (1..Len(operations)) \ RejectedIds :
       /\ submitted[i] = 2
       /\ db[i]["%hash%"] = NULL

\* C11: when update returns and an operation of the map failed on its
\* single-operation retry, the call returned an error outcome, never
\* success.
C11_GivenUpIsReported ==
  (upc = "done" /\ lost # {}) => updResult # "resolved"


\* The record at position i of the batch was compiled into at least one
\* backend operation of the bulk the call submits.
IsCompiled(i) ==
  /\ DomainOf(txes[i]) # undefined
  /\ updateBulk(EmptyBulk, txes[i]) # EmptyBulk

\* C12: when a tx call returns success, every record of the batch was
\* compiled into a backend operation of the submitted bulk; none was
\* dropped.
C12_NoRecordDropped ==
  (pc = "done" /\ error = "none") => \A i \in Batch : IsCompiled(i)


\* The calls of operation o that are past admission and not yet completed.
PastAdmission(o) == {p \in Callers : operation[p] = o /\ st[p] = "running"}

\* C13: at most FIND_RLIMIT findAll calls are past admission and not yet
\* completed, and a findAll that arrives at a full gate waits.
C13_FindBounded ==
  /\ Cardinality(PastAdmission("find")) <= FIND_RLIMIT
  /\ PastAdmission("find") = findRateLimit

C13_Witness ==
  /\ Cardinality(PastAdmission("find")) = FIND_RLIMIT
  /\ \E p \in Callers : operation[p] = "find" /\ st[p] = "waiting"

\* The tx calls that have backend writes in flight.
WritesInFlight == {p \in Callers : operation[p] = "tx" /\ Running(p) # {}}

\* C14: at most TX_RLIMIT tx calls have backend writes in flight, and each
\* of them holds a slot of the write gate.
C14_WritesBounded ==
  /\ Cardinality(WritesInFlight) <= TX_RLIMIT
  /\ WritesInFlight \subseteq rateLimit

StoredIds == {x \in DocIds : hcoll[x].kind # "nodoc"}

YieldedIds == {yielded[i].id : i \in 1..Len(yielded)}

\* C16: once next() has returned the end marker, every stored document has
\* been yielded exactly once, every document stored with a non-empty hash
\* before every document stored with a null, empty or absent hash, and
\* further calls of next() yield nothing more.
C16_EachOnceHashedFirst ==
  ended >= 1 =>
    /\ YieldedIds = StoredIds
    /\ Len(yielded) = Cardinality(StoredIds)
    /\ ~recheck =>
         \A i, j \in 1..Len(yielded) :
           (InHashed(hcoll0[yielded[i].id]) /\ InNonHashed(hcoll0[yielded[j].id])) => i < j

C16_Witness ==
  /\ ended = 2
  /\ ~recheck
  /\ \E x, y, z \in DocIds :
       /\ x < y
       /\ hcoll0[x].kind = "absent"
       /\ InHashed(hcoll0[y])
       /\ hcoll0[z].kind = "null"

\* C17: a second pass with recheck = false, run to exhaustion after a first
\* pass that was run to exhaustion and closed, yields the same
\* {identifier, hash, size} triples as the first and computes no hash.
C17_SecondPassSame ==
  (pass = 2 /\ ~recheck /\ ended >= 1 /\ {t.id : t \in firstPass} = StoredIds) =>
    /\ Triples(yielded) = firstPass
    /\ computes = 0

\* C18: when close() has returned, the buffer is empty and every hash the
\* pass computed is stored; the buffer is flushed before the cursor is
\* closed, and between calls it never holds more than FlushLimit entries.
C18_FlushedAtClose ==
  /\ ipc \in {"closing", "closed"} =>
       /\ bulkUpdate = {}
       /\ \A i \in 1..Len(yielded) :
            LET x == yielded[i].id
            IN (recheck \/ InNonHashed(hcoll0[x])) =>
                 hcoll[x] = StringHash(Format(Digest(calculateHash, x), estimateDocSize(x)))
  /\ iterator.state = "closed" => bulkUpdate = {}
  /\ ipc # "flush" => Cardinality(bulkUpdate) <= FlushLimit

C18_Witness ==
  /\ ipc = "closed"
  /\ pass = 1
  /\ computes = NumDocs
  /\ \A x \in DocIds : InHashed(hcoll[x])

ClassDescendants(c) ==
  {ClassOrder[i] : i \in {j \in 1..Len(ClassOrder) :
                            c \in Ancestors(ClassOrder[j]) /\ ~isMixin(ClassOrder[j])}}

\* C20: findAll(C, {}) for a class C that is not the root returns exactly
\* the stored documents whose class is C or a sub-class of C: none of a
\* sibling class and none whose class is a mixin.
C20_FindAllByClass ==
  (qpc = "done" /\ request.query = Undefined /\ request.clazz # "Doc"
     /\ ~isMixin(request.clazz)) =>
    found = {x \in QueryIds :
               Exists(qcoll[x]) /\ qcoll[x]["_class"] \in ClassDescendants(request.clazz)}

\* C21: for a class that is not the root, no document is returned whose
\* class violates the class constraint the query states explicitly: a
\* single class that is no descendant of the requested class matches
\* nothing, an $in list keeps its descendants, a $nin list is subtracted.
C21_ExplicitConstraintKept ==
  (qpc = "done" /\ request.clazz # "Doc" /\ request.query # Undefined) =>
    \A x \in found : ClassMatches(request.query, qcoll[x]["_class"])

\* C22: when the requested class is the root class, the emitted filter has
\* no class field, whatever class constraint the query carries.
C22_RootHasNoClassField ==
  (qpc = "done" /\ request.clazz = "Doc") => mongoQuery._class = Undefined

C22_Witness ==
  /\ qpc = "done"
  /\ request.clazz = "Doc"
  /\ request.query.t = "object"
  /\ mongoQuery._class = Undefined
  /\ \E x \in found : ~ClassMatches(request.query, qcoll[x]["_class"])

\* The record at position i of the batch asks for the post-write value.
Retrieves(i) == Record(i)._class = "TxUpdateDoc" /\ Record(i).retrieve

\* C28: the result list of a finished tx call holds exactly one entry for
\* every record of the batch that asked for the post-write value, and
\* nothing for the records that did not.
C28_OneResultPerRetrieve ==
  pc = "done" => Len(result) = Cardinality({i \in 1..Len(txes) : Retrieves(i)})

\* The wrapped creates of the batch.
WrappedCreates ==
  {i \in Batch : txes[i]._class = "TxCollectionCUD" /\ txes[i].tx._class = "TxCreateDoc"}

\* The record at position i with a wrapped update, mixin-apply or remove
\* replaced by the transaction it wraps.
Unwrapped(i) == IF i \in WrappedCreates THEN txes[i] ELSE Record(i)

\* C29: a create wrapped in a collection record of owner O, owner class OC
\* and collection N is inserted with attachedTo = O, attachedToClass = OC
\* and collection = N, whatever its own attributes say; a wrapped update,
\* mixin-apply or remove is compiled as the transaction it wraps.
C29_WrappedCreateIsRehomed ==
  /\ Compiled =>
       bulk = Compile(EmptyBulk, DomainGroup([i \in Batch |-> Unwrapped(i)]))
  /\ pc = "done" =>
       \A i \in WrappedCreates :
         LET x == txes[i].tx.objectId
         IN (Exists(db[x]) /\ ~Exists(db0[x])) =>
              /\ db[x]["attachedTo"] = txes[i].objectId
              /\ db[x]["attachedToClass"] = txes[i].objectClass
              /\ db[x]["collection"] = txes[i].collection

C29_Witness ==
  /\ pc = "done"
  /\ \E i \in WrappedCreates :
       /\ txes[i].tx.attributes["attachedTo"] # txes[i].objectId
       /\ Exists(db[txes[i].tx.objectId])
       /\ db[txes[i].tx.objectId]["attachedTo"] = txes[i].objectId
       /\ db[txes[i].tx.objectId]["collection"] = "comments"
  /\ \E j \in Batch : txes[j]._class = "TxCollectionCUD" /\ txes[j].tx._class = "TxUpdateDoc"

\* The related documents a forward lookup of the stored document d refers
\* to: those of the target's partition whose identifier d's reference holds.
ForwardMatches(d, lookup) ==
  {r \in RelatedIds :
     /\ Exists(related[r])
     /\ getDomain(related[r]["_class"]) = getDomain(lookup.target)
     /\ Has(d, lookup.key)
     /\ Includes(d[lookup.key], r)}

\* C23: for a forward lookup under key k, every returned document has under
\* $lookup.k the single related document when exactly one matches, the list
\* of them when two or more match, and no key k when none matches; for a
\* target of a backend domain and for a target of the model.
C23_ForwardLookupCollapse ==
  (qpc = "done" /\ request.options.lookup.kind = "forward") =>
    \A i \in 1..Len(rows) :
      LET lookup == request.options.lookup
          matches == ForwardMatches(qcoll[rows[i]["_id"]], lookup)
          written == Has(rows[i], "$lookup") /\ Has(rows[i]["$lookup"], lookup.key)
      IN /\ Cardinality(matches) = 0 => ~written
         /\ Cardinality(matches) = 1 =>
              /\ written
              /\ rows[i]["$lookup"][lookup.key].kind = "object"
              /\ rows[i]["$lookup"][lookup.key].docs[1]["_id"] \in matches
         /\ Cardinality(matches) >= 2 =>
              /\ written
              /\ rows[i]["$lookup"][lookup.key].kind = "list"
              /\ {rows[i]["$lookup"][lookup.key].docs[j]["_id"] :
                    j \in 1..Len(rows[i]["$lookup"][lookup.key].docs)} = matches

\* The related documents that refer to the stored document d by the
\* lookup's attribute and whose class is the target or one of its
\* descendants.
ReverseMatches(d, lookup) ==
  {r \in RelatedIds :
     /\ Exists(related[r])
     /\ Has(related[r], lookup.attr)
     /\ related[r][lookup.attr] = d["_id"]
     /\ Includes(getDescendants(lookup.target), related[r]["_class"])}

\* C24: for a reverse lookup under key k with target T, $lookup.k of every
\* returned document is a list, empty when nothing refers to the document,
\* holding exactly the documents that refer to it and whose class is a
\* descendant of T.
C24_ReverseLookupIsList ==
  (qpc = "done" /\ request.options.lookup.kind = "reverse") =>
    \A i \in 1..Len(rows) :
      LET lookup == request.options.lookup
          matches == ReverseMatches(qcoll[rows[i]["_id"]], lookup)
      IN /\ Has(rows[i], "$lookup")
         /\ Has(rows[i]["$lookup"], lookup.key)
         /\ rows[i]["$lookup"][lookup.key].kind = "list"
         /\ {rows[i]["$lookup"][lookup.key].docs[j]["_id"] :
               j \in 1..Len(rows[i]["$lookup"][lookup.key].docs)} = matches

\* The priority of a returned document is one of the values the enum
\* declares.
Declared(d) == Has(d, "priority") /\ Includes(getEnumById("priority"), d["priority"])

\* The findAll that has returned was sorted on key alone, in the given order.
SortedOn(key, order) ==
  /\ qpc = "done"
  /\ Len(request.options.sort) >= 1
  /\ request.options.sort[1] = SortBy(key, order)

\* The documents with a declared value come before all others.
UndeclaredLast ==
  \A i, j \in 1..Len(rows) : (Declared(rows[j]) /\ ~Declared(rows[i])) => j < i

\* C25: an ascending sort on the enum attribute orders the documents by the
\* position of their value in the declared list [LOW, MEDIUM, HIGH], and
\* the documents whose value is unset or not declared come after all others.
C25_EnumAscending ==
  SortedOn("priority", "Ascending") =>
    /\ found = SortIds
    /\ UndeclaredLast
    /\ \A i, j \in 1..Len(rows) :
         (i < j /\ Declared(rows[i]) /\ Declared(rows[j])) =>
           IndexOf(getEnumById("priority"), rows[i]["priority"])
             <= IndexOf(getEnumById("priority"), rows[j]["priority"])

\* The values [HIGH, LOW, MEDIUM, unset] come back as [LOW, MEDIUM, HIGH, unset].
C25_Witness ==
  /\ SortedOn("priority", "Ascending")
  /\ qcoll[1] = ("_id" :> 1 @@ "_class" :> "C" @@ "priority" :> "HIGH")
  /\ qcoll[2] = ("_id" :> 2 @@ "_class" :> "C" @@ "priority" :> "LOW")
  /\ qcoll[3] = ("_id" :> 3 @@ "_class" :> "C" @@ "priority" :> "MEDIUM")
  /\ qcoll[4] = ("_id" :> 4 @@ "_class" :> "C")
  /\ Len(rows) >= 4
  /\ <<rows[1]["_id"], rows[2]["_id"], rows[3]["_id"], rows[4]["_id"]>> = <<2, 3, 1, 4>>

\* C26: a descending sort on the enum attribute also returns the documents
\* whose value is unset or not declared after all documents with a declared
\* value.
C26_EnumDescendingUnsetLast ==
  SortedOn("priority", "Descending") => UndeclaredLast

HasDate(d) == Has(d, "dueDate") /\ d["dueDate"] # NULL

\* C27: a findAll sorted on the date attribute returns every document whose
\* value is null or missing after every document that has a value, in both
\* directions, on the cursor path and on the pipeline path.
C27_DateNullsLast ==
  (SortedOn("dueDate", "Ascending") \/ SortedOn("dueDate", "Descending")) =>
    \A i, j \in 1..Len(rows) : (HasDate(rows[j]) /\ ~HasDate(rows[i])) => j < i

\* C30: no document findAll or load returns carries the field %hash%,
\* whether no projection, an inclusion or an exclusion is given, on the
\* find-one path, the cursor path and the pipeline path.
C30_NoHashReturned ==
  qpc \in {"done", "loaded"} => \A i \in 1..Len(rows) : ~Has(rows[i], "%hash%")

\* C31: a call of createIndexes or removeOldIndex that has ended was never
\* rejected with an error, whatever the backend answered; and createIndexes
\* has handed every index of the configured list to the backend, in list
\* order, also after one of them failed.
C31_IndexErrorsSwallowed ==
  idxpc = "done" =>
    /\ idxError = "none"
    /\ idxCall.op = "createIndexes" =>
         attempted = [i \in 1..Len(idxCall.list) |-> idxCall.list[i].n]

\* createIndexes has returned after its first createIndex failed and its
\* second was attempted.
C31_Witness ==
  /\ idxpc = "done"
  /\ idxCall.op = "createIndexes"
  /\ Len(idxCall.list) = 2
  /\ logged >= 1
  /\ indexes[idxCall.list[1].n] = "none"
  /\ indexes[idxCall.list[2].n] # "none"
  /\ Len(attempted) = 2

IsMixinMove(i) ==
  /\ IsClass(i, "TxMixin")
  /\ isOperator(Record(i).attributes)
  /\ FirstKey(Record(i).attributes) = "$move"

\* The two operations a mixin $move of the first attribute of the record is
\* to compile into: $pull of the value from the mixin-qualified path, then
\* $push of the value at the position together with the modifiedOn set.
MovePair(i) ==
  LET tx == Record(i)
      a == FirstKey(tx.attributes["$move"])
      desc == tx.attributes["$move"][a]
      path == tx.mixin \o "." \o a
      filter == [_id |-> tx.objectId]
  IN << UpdateOne(filter, "$pull" :> (path :> desc["$value"])),
        UpdateOne(filter, "$set" :> ("modifiedOn" :> tx.modifiedOn)
                          @@ "$push" :> (path :> ("$each" :> <<desc["$value"]>>
                                                  @@ "$position" :> desc["$position"]))) >>

\* C32: a tx call whose batch carries a mixin-apply with $move is not
\* rejected by the compiler; the compiled bulk holds, for that record, the
\* $pull and right after it the $push on the mixin-qualified path; and when
\* the record is the whole batch and the call has returned, the array at
\* that path has the value at the requested position.
C32_MixinMoveCompiles ==
  \A i \in Batch :
    (pc # "idle" /\ IsMixinMove(i) /\ \A j \in Batch : ~Throws(txes[j]) \/ j = i) =>
      /\ error # "TypeError"
      /\ \E k \in 1..(Len(bulk.bulkOperations) - 1) :
           <<bulk.bulkOperations[k], bulk.bulkOperations[k + 1]>> = MovePair(i)
      /\ (pc = "done" /\ Len(txes) = 1 /\ Exists(db[Record(i).objectId])) =>
           LET tx == Record(i)
               a == FirstKey(tx.attributes["$move"])
               desc == tx.attributes["$move"][a]
               path == tx.mixin \o "." \o a
               d == db[tx.objectId]
           IN /\ HasPath(d, path)
              /\ Len(GetPath(d, path)) > 0
              /\ GetPath(d, path)[Min(desc["$position"] + 1, Len(GetPath(d, path)))]
                   = desc["$value"]

\* C33: for the chained forward lookup ref -> b no returned document has
\* a document or a list under $lookup.b of its own $lookup object (a key
\* holding undefined is let pass); when ref resolved to exactly one
\* document, that document carries the $lookup object b is attached to.
C33_NestedLookupUnderParent ==
  (qpc = "done" /\ request.options.lookup.nested # <<>>) =>
    \A i \in 1..Len(rows) :
      LET l == rows[i]["$lookup"]
      IN /\ Has(l, "b") => l["b"].kind = "undefined"
         /\ (Has(l, "ref") /\ l["ref"].kind = "object") => Has(l["ref"].docs[1], "$lookup")

\* Some key of the predicate or of the sort specification names a
\* looked-up path.
NamesLookup(key) == Len(key) >= 8 /\ SubSeq(key, 1, 8) = "$lookup."

RefersToLookup(query, options) ==
  \/ \E i \in 1..Len(QueryFields(query)) : NamesLookup(QueryFields(query)[i].key)
  \/ \E i \in 1..Len(options.sort) : NamesLookup(options.sort[i].key)

Position(pipeline, op) ==
  IF \E i \in 1..Len(pipeline) : pipeline[i] = op
  THEN CHOOSE i \in 1..Len(pipeline) : pipeline[i] = op
  ELSE 0

\* The pipeline with the join steps ahead of every other stage.
JoinFirst(options) ==
  <<"$lookup", "$match">>
    \o (IF options.sort # <<>> THEN <<"$sort">> ELSE <<>>)
    \o (IF options.limit > 0 THEN <<"$limit">> ELSE <<>>)
    \o <<"$project">>

\* C34: in the pipeline of a findAll with a lookup the join steps stand
\* before $match exactly when a key of the predicate or of the sort names a
\* looked-up path, and after $match, $sort and $limit otherwise; and the
\* rows the call may return are those of the pipeline that joins first.
C34_JoinPlacement ==
  (qpc = "done" /\ HasSteps(request.options.lookup)) =>
    LET pipeline == Pipeline(request.query, request.options)
        join == Position(pipeline, "$lookup")
    IN /\ join > 0
       /\ (join < Position(pipeline, "$match"))
            <=> RefersToLookup(request.query, request.options)
       /\ ~RefersToLookup(request.query, request.options) =>
            \A op \in {"$match", "$sort", "$limit"} : Position(pipeline, op) < join
       /\ findAllRows(request.clazz, request.query, request.options)
            = findWithPipeline(JoinFirst(request.options), request.clazz, request.query,
                               request.options)
       /\ rows \in findWithPipeline(JoinFirst(request.options), request.clazz,
                                    request.query, request.options)

\* A call sorted on $lookup.ref.name with limit 1 has returned the second
\* document, whose joined name is the lower one.
C34_Witness ==
  /\ qpc = "done"
  /\ request.options.sort = <<SortBy("$lookup.ref.name", "Ascending")>>
  /\ request.options.limit = 1
  /\ Exists(qcoll[1])
  /\ Exists(qcoll[2])
  /\ Len(rows) = 1
  /\ rows[1]["_id"] = 2
  /\ Has(rows[1]["$lookup"], "ref")
  /\ rows[1]["$lookup"]["ref"].docs[1]["name"] = "x"
  /\ Has(qcoll[1], "ref")
  /\ related[qcoll[1]["ref"][1]] # NoDoc
  /\ related[qcoll[1]["ref"][1]]["name"] = "y"

\* The selector of a case holds of a document: a literal equals its value,
\* $in holds a value of the list, $nin none of it, $ne a different value.
SelectorHolds(c, d) ==
  LET has == Has(d, "status")
      among == has /\ \E k \in 1..Len(c.values) : c.values[k] = d["status"]
  IN CASE c.op = "$in" -> among
       [] c.op = "$nin" -> ~among
       [] c.op = "$ne" -> ~among
       [] OTHER -> among

\* The rank of the first case in list order whose selector holds, else the
\* explicit default, else the number of cases.
RuleRank(rules, d) ==
  IF \E i \in 1..Len(rules.cases) : SelectorHolds(rules.cases[i], d)
  THEN rules.cases[CHOOSE i \in 1..Len(rules.cases) :
                     /\ SelectorHolds(rules.cases[i], d)
                     /\ \A j \in 1..(i - 1) : ~SelectorHolds(rules.cases[j], d)].index
  ELSE IF rules.hasDefault THEN rules.default ELSE Len(rules.cases)

\* C35: a findAll sorted by a rule set returns every document, ordered by
\* the rank of the first case whose selector (literal, $in, $nin, $ne) the
\* document matches, the default or the number of cases when none matches,
\* in the direction of the rule set.
C35_RuleSortRanks ==
  (qpc # "idle" /\ isRulesSort(request.options)) =>
    LET rules == request.options.sort[1].rules
    IN /\ qpc = "done"
       /\ found = SortIds
       /\ \A i, j \in 1..Len(rows) :
            i < j => IF rules.order = "Ascending"
                     THEN RuleRank(rules, rows[i]) <= RuleRank(rules, rows[j])
                     ELSE RuleRank(rules, rows[i]) >= RuleRank(rules, rows[j])

\* The class identifiers an emitted class constraint names.
EmittedClasses(v) ==
  CASE v.t = "string" -> <<v.s>>
    [] v.t = "object" /\ v.hasIn -> v.inList
    [] OTHER -> <<>>

\* C36: the class constraint emitted for a class that is not the root names
\* no mixin; with no class constraint in the query it names exactly the
\* non-mixin descendants of the requested class; and a set of one class
\* without exclusion list is emitted as that single value.
C36_NoMixinEmitted ==
  (qpc = "done" /\ getBaseClass(request.clazz) # "Doc") =>
    LET v == mongoQuery._class
        classes == getDescendants(getBaseClass(request.clazz))
    IN /\ \A i \in 1..Len(EmittedClasses(v)) : ~isMixin(EmittedClasses(v)[i])
       /\ request.query = Undefined => v = Simplify(In(NoMixins(classes)))
       /\ ~(v.t = "object" /\ v.hasIn /\ Len(v.inList) = 1 /\ ~v.hasNin)

\* C37: every document a tx call inserts is stored in the domain its own
\* class resolves to, and every write of the call goes to the domain of the
\* class of the document it mutates, also for a create wrapped in a
\* collection-attachment record of an owner of another domain and for an
\* operator update with retrieve.
C37_WritesInOwnDomain ==
  \A w \in writes : w.domain = getDomain(w.class)

\* C38: under every interleaving of a pass of the hash iterator with
\* updates of the same domain, a document stored with a non-empty hash has
\* the hash of its current content: a hash computed from the content of
\* before an update is never written back after the update.
C38_StoredHashIsCurrent ==
  \A x \in DocIds :
    InHashed(hcoll[x]) =>
      hcoll[x].chars = Format(Digest(calculateHash, Content(x)), estimateDocSize(x))

\* C39: close() of a hash iterator completes without error in every state
\* of the iterator: before the first next(), in either phase, after
\* exhaustion, and when it is called a second time.
C39_CloseNeverThrows == ipc # "TypeError"

\* C40: update() terminates whatever bulk writes the backend fails, and
\* submits each operation at most twice; a second submission is made alone,
\* the chunk size stays 1 once it is 1, and an operation that fails alone
\* is dropped and never submitted again.
C40_UpdateTerminates ==
  /\ [](\A x \in Ids : submitted[x] <= 2)
  /\ [][/\ skip = 1 => skip' = 1
        /\ \A x \in Ids : (submitted'[x] = 2 /\ submitted[x] < 2) => (skip = 1 /\ Len(ops) > 0 /\ ops[1].id = x)
        /\ \A x \in lost : submitted'[x] = submitted[x] /\ x \in lost'
        /\ (upc = "loop" /\ skip = 1 /\ ops # <<>> /\ ops' # ops) => ops' = Tail(ops)]_vars
  /\ (upc = "loop") ~> (upc = "done")

C40_Witness ==
  /\ upc = "done"
  /\ lost # {}
  /\ \E x \in Ids \ lost : submitted[x] = 2
  /\ \E x \in lost : submitted[x] = 2
  /\ \E x \in Ids : submitted[x] = 1

=============================================================================
